---- MODULE Spec2Model ----
(***************************************************************************)
(* The sandboxed directory and file adapters of flash-go/files-service.     *)
(*                                                                         *)
(* A path string is a sequence of one-character strings, so that           *)
(* filepath.Clean, Join, Rel, Dir and Base are computed character by       *)
(* character as the Go library computes them.  The filesystem is a function *)
(* from physical paths (sequences of names) to nodes; the system calls     *)
(* resolve a path string against it the way the kernel does, following     *)
(* symbolic links in every component but (for lstat, rename, remove) the   *)
(* last.                                                                   *)
(***************************************************************************)
EXTENDS Integers, Sequences, FiniteSets, TLC

VARIABLES fs, last, steps, calls

vars == <<fs, last, steps, calls>>

(***************************************************************************)
(* Values computed once                                                    *)
(*                                                                         *)
(* Only({e : x \in {v}}) is e with x standing for the value of v: v is      *)
(* computed once, as the right-hand side of an assignment x := v is, and e *)
(* is computed from the result.                                            *)
(***************************************************************************)
Only(S) == CHOOSE x \in S : TRUE

(***************************************************************************)
(* Strings                                                                 *)
(***************************************************************************)
Sep == "/"

Dot == <<".">>

DotDot == <<".", ".">>

\* The characters of the model in byte order ('.' < '/' < digits < letters).
ByteOrder == <<".", "/", "1", "2", "3", "4", "5", "6", "7", "B", "T",
               "a", "b", "c", "d", "e", "f", "g", "h", "i", "k", "l", "m", "n",
               "p", "s", "t", "v", "x", "y">>

Ord(c) == CHOOSE i \in 1..Len(ByteOrder) : ByteOrder[i] = c

Front(s) == SubSeq(s, 1, Len(s) - 1)

Last(s) == s[Len(s)]

\* strings.HasPrefix
HasPrefix(s, pre) == Len(s) >= Len(pre) /\ SubSeq(s, 1, Len(pre)) = pre

\* strings.Count(s, "/")
CountSep(s) == Cardinality({i \in 1..Len(s) : s[i] = Sep})

\* Go's string comparison a < b: bytewise lexicographic.
RECURSIVE StrLess(_, _)
StrLess(a, b) ==
  IF b = <<>> THEN FALSE
  ELSE IF a = <<>> THEN TRUE
  ELSE IF Head(a) # Head(b) THEN Ord(Head(a)) < Ord(Head(b))
  ELSE StrLess(Tail(a), Tail(b))

\* The position of the k-th separator of s; 0 before the first, Len(s) + 1
\* after the last.
SepAt(s, k) ==
  IF k = 0 THEN 0
  ELSE IF k > CountSep(s) THEN Len(s) + 1
  ELSE CHOOSE i \in 1..Len(s) :
         s[i] = Sep /\ Cardinality({j \in 1..i : s[j] = Sep}) = k

\* strings.Split(s, "/"): the segments between separators, empty ones kept.
Split(s) == [k \in 1..(CountSep(s) + 1) |-> SubSeq(s, SepAt(s, k - 1) + 1, SepAt(s, k) - 1)]

\* strings.Join(segs, "/")
RECURSIVE JoinSegs(_)
JoinSegs(segs) ==
  IF segs = <<>> THEN <<>>
  ELSE IF Len(segs) = 1 THEN segs[1]
  ELSE segs[1] \o <<Sep>> \o JoinSegs(Tail(segs))

IsAbs(p) == p # <<>> /\ Head(p) = Sep

\* The element loop of filepath.Clean: empty and "." elements are dropped, ".."
\* removes the element before it, or is kept at the front of a relative path.
RECURSIVE CleanSegs(_, _, _)
CleanSegs(segs, out, rooted) ==
  IF segs = <<>> THEN out
  ELSE LET e == Head(segs)
           rest == Tail(segs)
       IN IF e = <<>> \/ e = Dot THEN CleanSegs(rest, out, rooted)
          ELSE IF e = DotDot THEN
                 IF out # <<>> /\ Last(out) # DotDot
                   THEN CleanSegs(rest, Front(out), rooted)
                 ELSE IF rooted THEN CleanSegs(rest, out, rooted)
                 ELSE CleanSegs(rest, Append(out, DotDot), rooted)
          ELSE CleanSegs(rest, Append(out, e), rooted)

\* filepath.Clean
Clean(p) ==
  IF p = <<>> THEN Dot
  ELSE Only({IF IsAbs(p) THEN <<Sep>> \o body
              ELSE IF body = <<>> THEN Dot
              ELSE body
              : body \in {JoinSegs(CleanSegs(Split(p), <<>>, IsAbs(p)))}})

\* filepath.Join(a, b): the non-empty elements joined by a separator, cleaned.
Join(a, b) ==
  IF a = <<>> /\ b = <<>> THEN <<>>
  ELSE IF a = <<>> THEN Clean(b)
  ELSE IF b = <<>> THEN Clean(a)
  ELSE Only({Clean(joined) : joined \in {a \o <<Sep>> \o b}})

\* The working directory of the process, used by filepath.Abs for a relative path.
Cwd == <<Sep>>

\* filepath.Abs
Abs(p) == IF IsAbs(p) THEN Clean(p) ELSE Join(Cwd, p)

\* The index of the last separator of p, 0 when there is none.
RECURSIVE LastSep(_)
LastSep(p) ==
  IF p = <<>> THEN 0
  ELSE IF Last(p) = Sep THEN Len(p)
  ELSE LastSep(Front(p))

\* filepath.Dir
Dir(p) == Only({Clean(dir) : dir \in {SubSeq(p, 1, LastSep(p))}})

RECURSIVE StripTrailingSeps(_)
StripTrailingSeps(p) ==
  IF p # <<>> /\ Last(p) = Sep THEN StripTrailingSeps(Front(p)) ELSE p

\* filepath.Base
Base(p) ==
  IF p = <<>> THEN Dot
  ELSE Only({IF q = <<>> THEN <<Sep>> ELSE SubSeq(q, LastSep(q) + 1, Len(q))
              : q \in {StripTrailingSeps(p)}})

RECURSIVE NonEmpty(_)
NonEmpty(segs) ==
  IF segs = <<>> THEN <<>>
  ELSE IF Head(segs) = <<>> THEN NonEmpty(Tail(segs))
  ELSE <<Head(segs)>> \o NonEmpty(Tail(segs))

\* The names of a cleaned path: its non-empty segments.
Names(p) == Only({NonEmpty(segs) : segs \in {Split(p)}})

RECURSIVE CommonLen(_, _)
CommonLen(a, b) ==
  IF a = <<>> \/ b = <<>> \/ Head(a) # Head(b) THEN 0
  ELSE 1 + CommonLen(Tail(a), Tail(b))

\* filepath.Rel(base, targ) for two absolute paths: "." when they are equal, else
\* one ".." for each name of base past the common prefix, then the rest of targ.
Rel(base, targ) ==
  Only({
    IF cb = ct THEN Dot
    ELSE Only({
           Only({JoinSegs([i \in 1..(Len(b) - n) |-> DotDot] \o SubSeq(t, n + 1, Len(t)))
                 : n \in {CommonLen(b, t)}})
           : b \in {Names(cb)}, t \in {Names(ct)}})
    : cb \in {Clean(base)}, ct \in {Clean(targ)}})

(***************************************************************************)
(* The filesystem and the system calls                                     *)
(***************************************************************************)
DirNode == [kind |-> "dir", data |-> <<>>, to |-> <<>>]

FileNode(d) == [kind |-> "file", data |-> d, to |-> <<>>]

\* A symbolic link; its text is an absolute path, kept as its names.
LinkNode(t) == [kind |-> "link", data |-> <<>>, to |-> t]

\* How many symbolic links one path resolution follows before ELOOP.
MaxLinkHops == 3

IsPrefix(a, b) == Len(a) <= Len(b) /\ SubSeq(b, 1, Len(a)) = a

\* The kernel's path walk from directory cur over the names rest.  A symbolic
\* link is followed in every component but the last, and in the last when
\* followLast.  phys is the physical path reached, or the one the walk failed
\* at; final tells that the failure is a missing last component.
RECURSIVE Walk(_, _, _, _, _)
Walk(f, cur, rest, followLast, hops) ==
  IF rest = <<>> THEN [err |-> "", phys |-> cur, final |-> TRUE]
  ELSE IF cur \notin DOMAIN f THEN [err |-> "ENOENT", phys |-> cur, final |-> FALSE]
  ELSE IF f[cur].kind # "dir" THEN [err |-> "ENOTDIR", phys |-> cur, final |-> FALSE]
  ELSE LET c == Head(rest)
           t == Tail(rest)
           p == Append(cur, c)
       IN IF c = Dot THEN Walk(f, cur, t, followLast, hops)
          ELSE IF c = DotDot
            THEN Walk(f, IF cur = <<>> THEN cur ELSE Front(cur), t, followLast, hops)
          ELSE IF p \notin DOMAIN f
            THEN [err |-> "ENOENT", phys |-> p, final |-> (t = <<>>)]
          ELSE IF f[p].kind = "link" /\ (t # <<>> \/ followLast)
            THEN IF hops = 0 THEN [err |-> "ELOOP", phys |-> p, final |-> FALSE]
                 ELSE Walk(f, <<>>, f[p].to \o t, followLast, hops - 1)
          ELSE Walk(f, p, t, followLast, hops)

\* os.Lstat: the last component is not followed.
Lstat(f, p) == Only({Walk(f, <<>>, names, FALSE, MaxLinkHops) : names \in {Names(p)}})

\* os.Stat, and the resolution done by open and by filepath.EvalSymlinks.
Stat(f, p) == Only({Walk(f, <<>>, names, TRUE, MaxLinkHops) : names \in {Names(p)}})

\* The path string of a physical path.
PathOf(phys) == <<Sep>> \o JoinSegs(phys)

\* The names in a directory, as a set.
ChildNames(f, d) == {Last(q) : q \in {r \in DOMAIN f : Len(r) = Len(d) + 1 /\ IsPrefix(d, r)}}

\* The names of a set in ascending byte order (os.ReadDir sorts by file name).
RECURSIVE SortNames(_)
SortNames(S) ==
  IF S = {} THEN <<>>
  ELSE Only({<<m>> \o SortNames(S \ {m})
              : m \in {CHOOSE x \in S : \A y \in S \ {x} : StrLess(x, y)}})

\* os.ReadDir of the directory at physical path d.
ReadDir(f, d) == Only({SortNames(names) : names \in {ChildNames(f, d)}})

\* The entries at and below physical path d.
Subtree(f, d) == {q \in DOMAIN f : IsPrefix(d, q)}

WithNode(f, p, n) == [q \in DOMAIN f \cup {p} |-> IF q = p THEN n ELSE f[q]]

Without(f, S) == [q \in DOMAIN f \ S |-> f[q]]

\* The result of a call that changes the filesystem.
Sys(e, f, t) == [err |-> e, fs |-> f, touched |-> t]

\* os.Mkdir
Mkdir(f, p) ==
  Only({
    IF st.err = "" THEN Sys("EEXIST", f, {st.phys})
    ELSE IF st.err = "ENOENT" /\ st.final THEN Sys("", WithNode(f, st.phys, DirNode), {st.phys})
    ELSE Sys(st.err, f, {st.phys})
    : st \in {Lstat(f, p)}})

\* os.MkdirAll: nothing to do for an existing directory; else the parent first,
\* then the directory itself.
RECURSIVE MkdirAll(_, _)
MkdirAll(f, p) ==
  Only({
    IF st.err = ""
      THEN Sys(IF f[st.phys].kind = "dir" THEN "" ELSE "ENOTDIR", f, {st.phys})
    ELSE Only({
           IF up.err # "" THEN Sys(up.err, up.fs, up.touched \cup {st.phys})
           ELSE Only({
                  Sys(IF mk.err # "" /\ again.err = "" /\ up.fs[again.phys].kind = "dir"
                        THEN "" ELSE mk.err,
                      mk.fs, up.touched \cup mk.touched \cup {st.phys})
                  : mk \in {Mkdir(up.fs, p)}, again \in {Lstat(up.fs, p)}})
           : up \in {IF Names(p) = <<>> THEN Sys("", f, {})
                     ELSE Only({MkdirAll(f, parent) : parent \in {Dir(p)}})}})
    : st \in {Stat(f, p)}})

\* RemoveAll that follows the symbolic links it meets and removes what they
\* point to as well.
RemoveAllThrough(f, p) ==
  Only({
    IF st.err = "ENOENT" THEN Sys("", f, {st.phys})
    ELSE IF st.err # "" THEN Sys(st.err, f, {st.phys})
    ELSE Only({Sys("", Without(f, gone), gone)
                : gone \in {Subtree(f, st.phys) \cup
                              {Stat(f, PathOf(q)).phys :
                                 q \in {r \in Subtree(f, st.phys) : f[r].kind = "link"}}}})
    : st \in {Lstat(f, p)}})

\* os.RemoveAll: the entry and, for a directory, everything below it; a symbolic
\* link is unlinked, never followed.  A missing path is no error.
RemoveAll(f, p) ==
  Only({
    IF st.err = "ENOENT" THEN Sys("", f, {st.phys})
    ELSE IF st.err # "" THEN Sys(st.err, f, {st.phys})
    ELSE Only({Sys("", Without(f, gone), gone) : gone \in {Subtree(f, st.phys)}})
    : st \in {Lstat(f, p)}})

\* os.Remove: unlink, or rmdir of an empty directory.
Remove(f, p) ==
  Only({
    IF st.err # "" THEN Sys(st.err, f, {st.phys})
    ELSE IF f[st.phys].kind = "dir" /\ ChildNames(f, st.phys) # {}
      THEN Sys("ENOTEMPTY", f, {st.phys})
    ELSE Sys("", Without(f, {st.phys}), {st.phys})
    : st \in {Lstat(f, p)}})

\* The filesystem after rename(2) of the entry at physical path from to the
\* physical path to: the entry, with everything below it, is at to.
Moved(f, from, to) ==
  Only({
    [q \in (DOMAIN f \ (sub \cup {to})) \cup {to \o SubSeq(r, Len(from) + 1, Len(r)) : r \in sub}
       |-> IF IsPrefix(to, q) THEN f[from \o SubSeq(q, Len(to) + 1, Len(q))] ELSE f[q]]
    : sub \in {Subtree(f, from)}})

\* rename(2): an existing non-directory is replaced by a non-directory, an
\* empty directory by a directory; a directory moves with everything below it.
RenameSyscall(f, old, new) ==
  Only({
    LET t == {o.phys, n.phys}
    IN IF o.err # "" THEN Sys(o.err, f, t)
       ELSE IF n.err # "" /\ ~(n.err = "ENOENT" /\ n.final) THEN Sys(n.err, f, t)
       ELSE IF o.phys = n.phys THEN Sys("", f, t)
       ELSE IF IsPrefix(o.phys, n.phys) THEN Sys("EINVAL", f, t)
       ELSE IF n.err = "" /\ f[o.phys].kind = "dir" /\ f[n.phys].kind # "dir"
         THEN Sys("ENOTDIR", f, t)
       ELSE IF n.err = "" /\ f[o.phys].kind # "dir" /\ f[n.phys].kind = "dir"
         THEN Sys("EISDIR", f, t)
       ELSE IF n.err = "" /\ f[n.phys].kind = "dir" /\ ChildNames(f, n.phys) # {}
         THEN Sys("ENOTEMPTY", f, t)
       ELSE Sys("", Moved(f, o.phys, n.phys), t)
    : o \in {Lstat(f, old)}, n \in {Lstat(f, new)}})

\* The os.Lstat of the new name that os.Rename begins with: a directory there
\* ends the call, with the error of the old name or with EEXIST; "" lets the
\* call go on to rename(2).
RenameLstat(f, old, new) ==
  Only({
    IF n.err = "" /\ f[n.phys].kind = "dir"
      THEN Sys(IF o.err # "" THEN o.err ELSE "EEXIST", f, {o.phys, n.phys})
    ELSE Sys("", f, {n.phys})
    : o \in {Lstat(f, old)}, n \in {Lstat(f, new)}})

\* os.Rename: the test of the new name, then rename(2).
Rename(f, old, new) ==
  Only({
    IF pre.err # "" THEN pre
    ELSE Only({Sys(mv.err, mv.fs, pre.touched \cup mv.touched)
                : mv \in {RenameSyscall(f, old, new)}})
    : pre \in {RenameLstat(f, old, new)}})

\* os.Create: open with O_CREATE|O_TRUNC, following a symbolic link in the last
\* component; an existing file is truncated, a missing one is created.
Create(f, p) ==
  Only({
    IF st.err = ""
      THEN IF f[st.phys].kind = "dir" THEN Sys("EISDIR", f, {st.phys})
           ELSE Sys("", WithNode(f, st.phys, FileNode(<<>>)), {st.phys})
    ELSE IF st.err = "ENOENT" /\ st.final
      THEN Sys("", WithNode(f, st.phys, FileNode(<<>>)), {st.phys})
    ELSE Sys(st.err, f, {st.phys})
    : st \in {Stat(f, p)}})

\* A write of bytes d at offset 0 of the open file at physical path p.
WriteAt(f, p, d) ==
  IF p \notin DOMAIN f \/ f[p].kind # "file" THEN f
  ELSE Only({
         WithNode(f, p, FileNode(d \o (IF Len(old) > Len(d)
                                         THEN SubSeq(old, Len(d) + 1, Len(old))
                                         ELSE <<>>)))
         : old \in {f[p].data}})

(***************************************************************************)
(* The directory adapter                                                   *)
(***************************************************************************)
\* The configured storage root.
storeLocalRootPath == <<"/", "v", "/", "d">>

baseAbs == Abs(storeLocalRootPath)

maxDepth == 5

\* The outcome of an adapter call: the error kind ("OK" for nil), the
\* filesystem it leaves, the physical paths its system calls acted on, and the
\* listing (GetFiles only).
Res(e, f, t) == [err |-> e, fs |-> f, touched |-> t, list |-> <<>>]

\* An error of the operating system returned as it is.
OsErr(e) == IF e = "" THEN "OK" ELSE "OSError"

IsSymlink(f, st) == f[st.phys].kind = "link"

IsDir(f, st) == f[st.phys].kind = "dir"

\* The loop over the parent directories: from current upwards until the base
\* (or the filesystem root) is reached, each one is lstat-ed and must not be a
\* symbolic link.
RECURSIVE AncestorLoop(_, _, _)
AncestorLoop(f, current, acc) ==
  IF current = baseAbs \/ current = <<Sep>> THEN [verdict |-> "ok", touched |-> acc]
  ELSE Only({
         Only({
           IF st.err # "" THEN [verdict |-> "staterr", touched |-> seen]
           ELSE IF IsSymlink(f, st) THEN [verdict |-> "symlink", touched |-> seen]
           ELSE Only({AncestorLoop(f, parent, seen) : parent \in {Dir(current)}})
           : seen \in {acc \cup {st.phys}}})
         : st \in {Lstat(f, current)}})

\* The absolute path of a cleaned path under the base.
TargetAbs(cleanPath) == Only({Abs(target) : target \in {Join(baseAbs, cleanPath)}})

\* CreateDir from the existence check on.
CreateDirAt(f, targetAbs) ==
  Only({
    IF st.err = "" THEN Res(IF IsDir(f, st) THEN "DirExist" ELSE "InvalidPath", f, {st.phys})
    ELSE IF st.err # "ENOENT" THEN Res("StatError", f, {st.phys})
    ELSE Only({
           IF w.verdict = "staterr" THEN Res("StatError", f, w.touched)
           ELSE IF w.verdict = "symlink" THEN Res("InvalidPath", f, w.touched)
           ELSE Only({
                  Res(OsErr(mk.err), mk.fs, w.touched \cup mk.touched)
                  : mk \in {MkdirAll(f, targetAbs)}})
           : w \in {Only({AncestorLoop(f, parent, {st.phys}) : parent \in {Dir(targetAbs)}})}})
    : st \in {Lstat(f, targetAbs)}})

CreateDirResult(f, path) ==
  IF path = <<>> THEN Res("InvalidPath", f, {})
  ELSE Only({
         IF cleanPath = Dot \/ cleanPath = <<Sep>> \/ HasPrefix(cleanPath, DotDot)
           THEN Res("InvalidPath", f, {})
         ELSE Only({
                Only({
                  IF HasPrefix(relToBase, DotDot) \/ relToBase = Dot
                    THEN Res("InvalidPath", f, {})
                  ELSE CreateDirAt(f, targetAbs)
                  : relToBase \in {Rel(baseAbs, targetAbs)}})
                : targetAbs \in {TargetAbs(cleanPath)}})
         : cleanPath \in {Clean(path)}})

\* The walk of filepath.EvalSymlinks: one lstat for every name of the path, from
\* the filesystem root on; the text of a symbolic link takes the place of its
\* name and, being absolute, restarts the walk at the root.  dest is the
\* resolved part, rest the names to come, seen the paths lstat-ed so far.
RECURSIVE WalkSymlinks(_, _, _, _, _)
WalkSymlinks(f, dest, rest, hops, seen) ==
  IF rest = <<>> THEN [err |-> "", phys |-> dest, touched |-> seen]
  ELSE LET c == Head(rest)
           t == Tail(rest)
           p == Append(dest, c)
       IN IF c = Dot THEN WalkSymlinks(f, dest, t, hops, seen)
          ELSE IF c = DotDot
            THEN WalkSymlinks(f, IF dest = <<>> THEN dest ELSE Front(dest), t, hops, seen)
          ELSE IF p \notin DOMAIN f
            THEN [err |-> "ENOENT", phys |-> p, touched |-> seen \cup {p}]
          ELSE IF f[p].kind = "link"
            THEN IF hops = 0 THEN [err |-> "ELOOP", phys |-> p, touched |-> seen \cup {p}]
                 ELSE WalkSymlinks(f, <<>>, f[p].to \o t, hops - 1, seen \cup {p})
          ELSE IF f[p].kind # "dir" /\ t # <<>>
            THEN [err |-> "ENOTDIR", phys |-> p, touched |-> seen \cup {p}]
          ELSE WalkSymlinks(f, p, t, hops, seen \cup {p})

\* filepath.EvalSymlinks: the resolved path, or the error of the lstat that
\* failed, and the paths lstat-ed.
EvalSymlinks(f, path) ==
  Only({WalkSymlinks(f, <<>>, names, MaxLinkHops, {}) : names \in {Names(path)}})

\* filepath.EvalSymlinks followed by the containment test of the DeleteDir
\* callback: the link must resolve, to a path whose Rel to the base does not
\* begin with "..".
SymlinkEscapes(f, path) ==
  Only({
    \/ ev.err # ""
    \/ Only({
         Only({HasPrefix(Rel(baseAbs, resolvedAbs), DotDot)
               : resolvedAbs \in {Abs(resolved)}})
         : resolved \in {PathOf(ev.phys)}})
    : ev \in {EvalSymlinks(f, path)}})

\* The type bits of the directory entry the walk hands to the callback: they
\* come from the lstat of the root and from the listing of the parent.
IsSymlinkEntry(f, path) ==
  Only({st.err = "" /\ IsSymlink(f, st) : st \in {Lstat(f, path)}})

\* The callback DeleteDir hands to filepath.WalkDir, for the entry at path.
WalkFn(f, targetAbs, path) ==
  Only({
    IF CountSep(rel) > maxDepth THEN "DepthExceeded"
    ELSE IF IsSymlinkEntry(f, path) /\ SymlinkEscapes(f, path) THEN "SymlinkError"
    ELSE "OK"
    : rel \in {Rel(targetAbs, path)}})

\* What the callback does at one entry, the one at the names rel below
\* targetAbs: its verdict, and the paths its system calls acted on (those of
\* filepath.EvalSymlinks, for a symbolic link within the depth limit).  dir
\* tells that the walk goes on to list the entry.
Visit(f, targetAbs, rel) ==
  Only({
    Only({
      [rel |-> rel, err |-> verdict,
       dir |-> Only({st.err = "" /\ IsDir(f, st) : st \in {Lstat(f, path)}}),
       phys |-> Lstat(f, path).phys,
       touched |-> IF IsSymlinkEntry(f, path) /\ verdict # "DepthExceeded"
                     THEN EvalSymlinks(f, path).touched ELSE {}]
      : verdict \in {WalkFn(f, targetAbs, path)}})
    : path \in {IF rel = <<>> THEN targetAbs ELSE Join(targetAbs, JoinSegs(rel))}})

\* The lexical order filepath.WalkDir walks in: a directory before its entries,
\* the entries of one directory in name order.
WalkBefore(a, b) ==
  \E k \in 0..Len(a) :
    /\ k <= Len(b)
    /\ SubSeq(a, 1, k) = SubSeq(b, 1, k)
    /\ \/ k = Len(a) /\ k < Len(b)
       \/ k < Len(a) /\ k < Len(b) /\ StrLess(a[k + 1], b[k + 1])

\* filepath.WalkDir from targetAbs: the lstat of the root, then the callback on
\* the root and on every entry below it (a symbolic link is an entry, never a
\* directory to descend into), in lexical order, stopping at the first error.
\* A directory the callback accepted is listed; no system call is made on the
\* entries of a listing.
WalkDir(f, targetAbs) ==
  Only({
    IF root.err # "" THEN [err |-> "OSError", touched |-> {root.phys}]
    ELSE Only({
           Only({
             IF failed = {}
               THEN [err |-> "OK",
                     touched |-> {root.phys} \cup UNION {v.touched : v \in visits}
                                   \cup {v.phys : v \in {w \in visits : w.dir}}]
             ELSE Only({
                    [err |-> first.err,
                     touched |-> {root.phys}
                       \cup UNION {v.touched : v \in {w \in visits :
                                      w = first \/ WalkBefore(w.rel, first.rel)}}
                       \cup {v.phys : v \in {w \in visits :
                                      w.dir /\ WalkBefore(w.rel, first.rel)}}]
                    : first \in {CHOOSE v \in failed :
                                   \A w \in failed \ {v} : WalkBefore(v.rel, w.rel)}})
             : failed \in {{v \in visits : v.err # "OK"}}})
           : visits \in {{Visit(f, targetAbs, SubSeq(q, Len(root.phys) + 1, Len(q)))
                          : q \in Subtree(f, root.phys)}}})
    : root \in {Lstat(f, targetAbs)}})

\* WalkThenRemove with the removal forgotten: the walk, and success.
WalkOnly(f, targetAbs) ==
  Only({Res(walk.err, f, walk.touched) : walk \in {WalkDir(f, targetAbs)}})

\* WalkThenRemove with the error of the walk looked at only after the removal.
RemoveThenReport(f, targetAbs) ==
  Only({
    IF rm.err # "" THEN Res("OSError", rm.fs, walk.touched \cup rm.touched)
    ELSE Res(walk.err, rm.fs, walk.touched \cup rm.touched)
    : walk \in {WalkDir(f, targetAbs)}, rm \in {RemoveAll(f, targetAbs)}})

\* The end of DeleteDir: the walk of the whole subtree, and the removal only
\* when the walk returned no error.
WalkThenRemove(f, targetAbs) ==
  Only({
    IF walk.err # "OK" THEN Res(walk.err, f, walk.touched)
    ELSE Only({
           Res(OsErr(rm.err), rm.fs, walk.touched \cup rm.touched)
           : rm \in {RemoveAll(f, targetAbs)}})
    : walk \in {WalkDir(f, targetAbs)}})

\* DeleteDir from the existence check on.
DeleteDirAt(f, targetAbs) ==
  Only({
    IF st.err = "ENOENT" THEN Res("DirNotFound", f, {st.phys})
    ELSE IF st.err # "" THEN Res("OSError", f, {st.phys})
    ELSE IF ~IsDir(f, st) THEN Res("InvalidPath", f, {st.phys})
    ELSE WalkThenRemove(f, targetAbs)
    : st \in {Lstat(f, targetAbs)}})

DeleteDirResult(f, path) ==
  IF path = <<>> THEN Res("InvalidPath", f, {})
  ELSE Only({
         IF cleanPath = Dot \/ cleanPath = <<Sep>> \/ HasPrefix(cleanPath, DotDot)
           THEN Res("InvalidPath", f, {})
         ELSE Only({
                Only({
                  IF HasPrefix(relToBase, DotDot) \/ relToBase = Dot
                    THEN Res("InvalidPath", f, {})
                  ELSE DeleteDirAt(f, targetAbs)
                  : relToBase \in {Rel(baseAbs, targetAbs)}})
                : targetAbs \in {TargetAbs(cleanPath)}})
         : cleanPath \in {Clean(path)}})

\* The two loops over the parent directories of RenameDir and RenameFile: the
\* old path's first, then the new path's.
AncestorLoops(f, oldAbs, newAbs, acc) ==
  Only({
    IF wo.verdict # "ok" THEN wo
    ELSE Only({AncestorLoop(f, parent, wo.touched) : parent \in {Dir(newAbs)}})
    : wo \in {Only({AncestorLoop(f, parent, acc) : parent \in {Dir(oldAbs)}})}})

\* RenameDir from the existence checks on.
RenameDirAt(f, oldAbs, newAbs) ==
  Only({
    IF so.err = "ENOENT" THEN Res("OldDirNotFound", f, {so.phys})
    ELSE IF so.err # "" THEN Res("OSError", f, {so.phys})
    ELSE IF ~IsDir(f, so) THEN Res("InvalidPath", f, {so.phys})
    ELSE Only({
           IF sn.err = "" THEN Res("DirNewExist", f, {so.phys, sn.phys})
           ELSE Only({
                  IF w.verdict # "ok" THEN Res("InvalidPath", f, w.touched)
                  ELSE Only({
                         Res(OsErr(mv.err), mv.fs, w.touched \cup mv.touched)
                         : mv \in {Rename(f, oldAbs, newAbs)}})
                  : w \in {AncestorLoops(f, oldAbs, newAbs, {so.phys, sn.phys})}})
           : sn \in {Lstat(f, newAbs)}})
    : so \in {Lstat(f, oldAbs)}})

RenameDirResult(f, oldPath, newPath) ==
  IF oldPath = <<>> \/ newPath = <<>> THEN Res("InvalidPath", f, {})
  ELSE Only({
         IF oldClean = Dot \/ HasPrefix(oldClean, DotDot)
            \/ newClean = Dot \/ HasPrefix(newClean, DotDot)
           THEN Res("InvalidPath", f, {})
         ELSE Only({
                IF HasPrefix(Rel(baseAbs, oldAbs), DotDot)
                   \/ HasPrefix(Rel(baseAbs, newAbs), DotDot)
                  THEN Res("InvalidPath", f, {})
                ELSE RenameDirAt(f, oldAbs, newAbs)
                : oldAbs \in {TargetAbs(oldClean)}, newAbs \in {TargetAbs(newClean)}})
         : oldClean \in {Clean(oldPath)}, newClean \in {Clean(newPath)}})

(***************************************************************************)
(* The file adapter                                                        *)
(***************************************************************************)
\* An uploaded file: hdr is FALSE for a nil header; name is the declared file
\* name; the stream delivers data, Open fails when openErr, and the stream ends
\* with a read error instead of EOF when readErr.
Upload(h, n, d, oe, re) == [hdr |-> h, name |-> n, data |-> d, openErr |-> oe, readErr |-> re]

\* What CreateFile knows after its checks: the error it returns, or "OK" and
\* the path of the file to create.
Checked(e, t, filename) == [err |-> e, touched |-> t, filename |-> filename]

\* The checks of CreateFile below the ancestor loop: the directory, then the
\* file name.
CreateFileAt(f, targetDirAbs, file, seen) ==
  Only({
    IF sd.err = "ENOENT" THEN Checked("DirNotFound", seen \cup {sd.phys}, <<>>)
    ELSE IF sd.err # "" THEN Checked("OSError", seen \cup {sd.phys}, <<>>)
    ELSE IF ~IsDir(f, sd) THEN Checked("InvalidPath", seen \cup {sd.phys}, <<>>)
    ELSE Only({
           Only({
             Checked(IF sf.err = "" THEN "FileExist" ELSE "OK",
                     seen \cup {sd.phys, sf.phys}, filename)
             : sf \in {Stat(f, filename)}})
           : filename \in {Only({Join(targetDirAbs, base) : base \in {Base(file.name)}})}})
    : sd \in {Stat(f, targetDirAbs)}})

\* CreateFileCheck with the file header tested after the path.
CreateFileCheckPathFirst(f, path, file) ==
  Only({
    IF HasPrefix(cleanPath, DotDot) THEN Checked("InvalidPath", {}, <<>>)
    ELSE Only({
           IF HasPrefix(Rel(baseAbs, targetDirAbs), DotDot)
             THEN Checked("InvalidPath", {}, <<>>)
           ELSE Only({
                  IF w.verdict = "staterr" THEN Checked("StatError", w.touched, <<>>)
                  ELSE IF w.verdict = "symlink" THEN Checked("InvalidPath", w.touched, <<>>)
                  ELSE IF ~file.hdr \/ file.name = <<>>
                    THEN Checked("InvalidFile", w.touched, <<>>)
                  ELSE CreateFileAt(f, targetDirAbs, file, w.touched)
                  : w \in {AncestorLoop(f, targetDirAbs, {})}})
           : targetDirAbs \in {TargetAbs(cleanPath)}})
    : cleanPath \in {Only({IF c = Dot THEN <<>> ELSE c : c \in {Clean(path)}})}})

\* CreateFile up to and including its existence check.
CreateFileCheck(f, path, file) ==
  IF ~file.hdr \/ file.name = <<>> THEN Checked("InvalidFile", {}, <<>>)
  ELSE Only({
         IF HasPrefix(cleanPath, DotDot) THEN Checked("InvalidPath", {}, <<>>)
         ELSE Only({
                IF HasPrefix(Rel(baseAbs, targetDirAbs), DotDot)
                  THEN Checked("InvalidPath", {}, <<>>)
                ELSE Only({
                       IF w.verdict = "staterr" THEN Checked("StatError", w.touched, <<>>)
                       ELSE IF w.verdict = "symlink" THEN Checked("InvalidPath", w.touched, <<>>)
                       ELSE CreateFileAt(f, targetDirAbs, file, w.touched)
                       : w \in {AncestorLoop(f, targetDirAbs, {})}})
                : targetDirAbs \in {TargetAbs(cleanPath)}})
         : cleanPath \in {Only({IF c = Dot THEN <<>> ELSE c : c \in {Clean(path)}})}})

\* io.Copy into the file opened at physical path p: the bytes of the stream are
\* written, and the stream's read error, if any, is returned.
CreateFileCopy(f, p, file) ==
  Sys(IF file.readErr THEN "EIO" ELSE "", WriteAt(f, p, file.data), {p})

\* CreateFile from data.File.Open on, for the file name the checks let through.
CreateFileWrite(f, filename, file, seen) ==
  IF file.openErr THEN Res("OSError", f, seen)
  ELSE Only({
         IF mk.err # "" THEN Res("OSError", mk.fs, seen \cup mk.touched)
         ELSE Only({
                Res(OsErr(cp.err), cp.fs, seen \cup mk.touched \cup cp.touched)
                : cp \in {CreateFileCopy(mk.fs, Stat(f, filename).phys, file)}})
         : mk \in {Create(f, filename)}})

CreateFileResult(f, path, file) ==
  Only({
    IF chk.err # "OK" THEN Res(chk.err, f, chk.touched)
    ELSE CreateFileWrite(f, chk.filename, file, chk.touched)
    : chk \in {CreateFileCheck(f, path, file)}})

\* The length of the buffer GetFiles reads for content sniffing.
sniffLen == 512

\* http.DetectContentType, as far as the model's bytes go: a buffer holding a
\* binary byte ("B") is application/octet-stream, any other (the empty one
\* included) is plain text.
DetectContentType(buf) ==
  IF \E i \in 1..Len(buf) : buf[i] = "B" THEN "application/octet-stream"
  ELSE "text/plain; charset=utf-8"

\* info.Size() of a directory entry (lstat): the bytes of a file, the length of
\* the text of a symbolic link.
SizeOf(n) == IF n.kind = "link" THEN Len(PathOf(n.to)) ELSE Len(n.data)

\* The descriptor GetFiles builds for the entry name of the directory at
\* physical path d (opened as targetAbs).  Size and MimeType are pointers:
\* a sequence with no element is nil.
FileResult(f, targetAbs, d, name) ==
  Only({
    IF n.kind = "dir" THEN [name |-> name, isDir |-> TRUE, size |-> <<>>, mime |-> <<>>]
    ELSE Only({
           Only({
             [name |-> name, isDir |-> FALSE, size |-> <<SizeOf(n)>>,
              mime |-> IF op.err = ""
                         THEN <<DetectContentType(SubSeq(content, 1,
                                  IF Len(content) < sniffLen THEN Len(content) ELSE sniffLen))>>
                       ELSE <<>>]
             : content \in {IF op.err = "" /\ f[op.phys].kind = "file"
                              THEN f[op.phys].data ELSE <<>>}})
           : op \in {Only({Stat(f, path) : path \in {Join(targetAbs, name)}})}})
    : n \in {f[Append(d, name)]}})

\* Less without the test that puts directories first.
LessByName(a, b) == StrLess(a.name, b.name)

\* The less function GetFiles hands to sort.Slice.
Less(a, b) == IF a.isDir # b.isDir THEN a.isDir ELSE StrLess(a.name, b.name)

RECURSIVE InsertSorted(_, _)
InsertSorted(x, s) ==
  IF s = <<>> THEN <<x>>
  ELSE IF Less(x, Head(s)) THEN <<x>> \o s
  ELSE <<Head(s)>> \o InsertSorted(x, Tail(s))

\* sort.Slice(response, less)
RECURSIVE SortSlice(_)
SortSlice(s) ==
  IF s = <<>> THEN <<>>
  ELSE Only({InsertSorted(Head(s), sorted) : sorted \in {SortSlice(Tail(s))}})

\* The entries GetFiles describes: those os.ReadDir returns for the directory.
ListedNames(f, d) == ReadDir(f, d)

\* The physical paths GetFiles acts on in the directory at physical path d:
\* the directory, its entries, and what os.Open reaches for the entries that
\* are no directories.
ListingTouched(f, targetAbs, d, names) ==
  {d} \cup {Append(d, names[i]) : i \in 1..Len(names)}
      \cup {Stat(f, Join(targetAbs, names[i])).phys :
              i \in {j \in 1..Len(names) : f[Append(d, names[j])].kind # "dir"}}

\* GetFiles from the existence check on.
GetFilesAt(f, targetAbs, seen) ==
  Only({
    IF st.err = "ENOENT" THEN Res("DirNotFound", f, seen \cup {st.phys})
    ELSE IF st.err # "" THEN Res("OSError", f, seen \cup {st.phys})
    ELSE IF ~IsDir(f, st) THEN Res("InvalidPath", f, seen \cup {st.phys})
    ELSE Only({
           Only({
             [err |-> "OK", fs |-> f,
              touched |-> seen \cup ListingTouched(f, targetAbs, st.phys, names),
              list |-> SortSlice(response)]
             : response \in {[i \in 1..Len(names) |->
                                FileResult(f, targetAbs, st.phys, names[i])]}})
           : names \in {ListedNames(f, st.phys)}})
    : st \in {Stat(f, targetAbs)}})

GetFilesResult(f, path) ==
  Only({
    IF cleanPath = DotDot \/ HasPrefix(cleanPath, DotDot) THEN Res("InvalidPath", f, {})
    ELSE Only({
           IF HasPrefix(Rel(baseAbs, targetAbs), DotDot) THEN Res("InvalidPath", f, {})
           ELSE Only({
                  IF w.verdict # "ok" THEN Res("InvalidPath", f, w.touched)
                  ELSE GetFilesAt(f, targetAbs, w.touched)
                  : w \in {AncestorLoop(f, targetAbs, {})}})
           : targetAbs \in {TargetAbs(cleanPath)}})
    : cleanPath \in {Clean(path)}})

\* DeleteFile from the ancestor loop on.
DeleteFileAt(f, targetFileAbs) ==
  Only({
    IF w.verdict = "staterr" THEN Res("StatError", f, w.touched)
    ELSE IF w.verdict = "symlink" THEN Res("InvalidPath", f, w.touched)
    ELSE Only({
           IF st.err = "ENOENT" THEN Res("FileNotFound", f, w.touched \cup {st.phys})
           ELSE IF st.err # "" THEN Res("OSError", f, w.touched \cup {st.phys})
           ELSE IF IsDir(f, st) THEN Res("InvalidPath", f, w.touched \cup {st.phys})
           ELSE Only({
                  Res(OsErr(rm.err), rm.fs, w.touched \cup {st.phys} \cup rm.touched)
                  : rm \in {Remove(f, targetFileAbs)}})
           : st \in {Stat(f, targetFileAbs)}})
    : w \in {Only({AncestorLoop(f, parent, {}) : parent \in {Dir(targetFileAbs)}})}})

DeleteFileResult(f, path) ==
  IF path = <<>> THEN Res("InvalidPath", f, {})
  ELSE Only({
         IF cleanPath = Dot \/ HasPrefix(cleanPath, DotDot) THEN Res("InvalidPath", f, {})
         ELSE Only({
                IF HasPrefix(Rel(baseAbs, targetFileAbs), DotDot) THEN Res("InvalidPath", f, {})
                ELSE DeleteFileAt(f, targetFileAbs)
                : targetFileAbs \in {TargetAbs(cleanPath)}})
         : cleanPath \in {Clean(path)}})

\* NewFileCheck with the test for an existing file left out: only a directory
\* at the new path stops the rename.
NewFileCheckDirOnly(f, sn) ==
  IF sn.err = "" /\ IsDir(f, sn) THEN "InvalidPath" ELSE "OK"

\* RenameFile's test of the new path, given its os.Stat: "OK" lets the rename
\* go ahead.
NewFileCheck(f, sn) ==
  IF sn.err = "" THEN (IF IsDir(f, sn) THEN "InvalidPath" ELSE "FileNewExist")
  ELSE IF sn.err # "ENOENT" THEN "OSError"
  ELSE "OK"

\* RenameFile from the existence checks on.
RenameFileAt(f, oldAbs, newAbs, seen) ==
  Only({
    IF so.err = "ENOENT" THEN Res("OldFileNotFound", f, seen \cup {so.phys})
    ELSE IF so.err # "" THEN Res("OSError", f, seen \cup {so.phys})
    ELSE IF IsDir(f, so) THEN Res("InvalidPath", f, seen \cup {so.phys})
    ELSE Only({
           IF NewFileCheck(f, sn) # "OK"
             THEN Res(NewFileCheck(f, sn), f, seen \cup {so.phys, sn.phys})
           ELSE Only({
                  Res(OsErr(mv.err), mv.fs, seen \cup {so.phys, sn.phys} \cup mv.touched)
                  : mv \in {Rename(f, oldAbs, newAbs)}})
           : sn \in {Stat(f, newAbs)}})
    : so \in {Stat(f, oldAbs)}})

RenameFileResult(f, oldPath, newPath) ==
  IF oldPath = <<>> \/ newPath = <<>> THEN Res("InvalidPath", f, {})
  ELSE Only({
         IF cleanOld = Dot \/ HasPrefix(cleanOld, DotDot) THEN Res("InvalidPath", f, {})
         ELSE IF cleanNew = Dot \/ HasPrefix(cleanNew, DotDot) THEN Res("InvalidPath", f, {})
         ELSE Only({
                IF HasPrefix(Rel(baseAbs, oldAbs), DotDot) THEN Res("InvalidPath", f, {})
                ELSE IF HasPrefix(Rel(baseAbs, newAbs), DotDot) THEN Res("InvalidPath", f, {})
                ELSE Only({
                       IF w.verdict # "ok" THEN Res("InvalidPath", f, w.touched)
                       ELSE RenameFileAt(f, oldAbs, newAbs, w.touched)
                       : w \in {AncestorLoops(f, oldAbs, newAbs, {})}})
                : oldAbs \in {TargetAbs(cleanOld)}, newAbs \in {TargetAbs(cleanNew)}})
         : cleanOld \in {Clean(oldPath)}, cleanNew \in {Clean(newPath)}})

(***************************************************************************)
(* Filesystems the service starts on, and the requests it is sent         *)
(***************************************************************************)
\* The storage root /v/d and, outside it, the directory /e with a file and a
\* directory.
Outside ==
  (<<>> :> DirNode) @@ (<<<<"v">>>> :> DirNode) @@ (<<<<"v">>, <<"d">>>> :> DirNode) @@ (<<<<"e">>>> :> DirNode)
  @@ (<<<<"e">>, <<"p">>>> :> FileNode(<<"T">>))
  @@ (<<<<"e">>, <<"s">>>> :> DirNode)
  @@ (<<<<"e">>, <<"s">>, <<"f">>>> :> FileNode(<<"T">>))

\* An empty storage root.
LayoutEmpty == Outside

\* Directories, files and symbolic links: l leads out of the root, i to the
\* directory a, n nowhere (to /e/n), h holds a link k out of the root, and a
\* holds a link m to the file b.
LayoutLinks ==
  Outside
  @@ (<<<<"v">>, <<"d">>, <<"a">>>> :> DirNode)
  @@ (<<<<"v">>, <<"d">>, <<"a">>, <<"g">>>> :> FileNode(<<"T", "T">>))
  @@ (<<<<"v">>, <<"d">>, <<"a">>, <<"m">>>> :> LinkNode(<<<<"v">>, <<"d">>, <<"b">>>>))
  @@ (<<<<"v">>, <<"d">>, <<"b">>>> :> FileNode(<<"B">>))
  @@ (<<<<"v">>, <<"d">>, <<"c">>>> :> DirNode)
  @@ (<<<<"v">>, <<"d">>, <<"h">>>> :> DirNode)
  @@ (<<<<"v">>, <<"d">>, <<"h">>, <<"k">>>> :> LinkNode(<<<<"e">>, <<"p">>>>))
  @@ (<<<<"v">>, <<"d">>, <<"i">>>> :> LinkNode(<<<<"v">>, <<"d">>, <<"a">>>>))
  @@ (<<<<"v">>, <<"d">>, <<"l">>>> :> LinkNode(<<<<"e">>>>))
  @@ (<<<<"v">>, <<"d">>, <<"n">>>> :> LinkNode(<<<<"e">>, <<"n">>>>))

\* A chain of directories t/1/2/3/4/5/6 with the file 7 at its end.
LayoutDeep ==
  Outside
  @@ (<<<<"v">>, <<"d">>, <<"b">>>> :> FileNode(<<"T">>))
  @@ [q \in {SubSeq(<<<<"v">>, <<"d">>, <<"t">>, <<"1">>, <<"2">>, <<"3">>, <<"4">>, <<"5">>, <<"6">>>>, 1, k) :
               k \in 3..9} |-> DirNode]
  @@ (<<<<"v">>, <<"d">>, <<"t">>, <<"1">>, <<"2">>, <<"3">>, <<"4">>, <<"5">>, <<"6">>, <<"7">>>>
        :> FileNode(<<"T">>))

Layouts == {LayoutEmpty, LayoutLinks, LayoutDeep}

\* The raw paths of the requests.
Paths ==
  { <<>>, <<".">>, <<"/">>, <<".", ".", "/", "e">>,
    <<"a">>, <<"a", "/", "g">>, <<"b">>, <<"x">>, <<"x", "/", "y">>,
    <<"l", "/", "s">>, <<"h">>, <<"a", "/", ".", ".", "/", "b">>,
    <<"/", "a">>, <<"t">>, <<"t", "/", "1">>, <<"i", "/", "g">>,
    <<".", ".", "a">>, <<"a", "/", "m">> }

\* The old and new paths of the rename requests.
OldPaths == { <<"a">>, <<"b">>, <<"a", "/", "g">>, <<"b", "/", "x">>, <<"/">> }

NewPaths == { <<"b">>, <<"c">>, <<"x">>, <<"x", "/", "y">>, <<"l", "/", "x">> }

\* The directory paths of the upload requests.
DirPaths == { <<>>, <<"a">>, <<"l">>, <<"x">>, <<".", ".", "/", "e">> }

\* The uploaded files.
Uploads ==
  { Upload(FALSE, <<>>, <<>>, FALSE, FALSE),
    Upload(TRUE, <<>>, <<"T">>, FALSE, FALSE),
    Upload(TRUE, <<>>, <<"T">>, TRUE, FALSE),
    Upload(TRUE, <<"g">>, <<"T">>, FALSE, FALSE),
    Upload(TRUE, <<"n">>, <<"B", "T">>, FALSE, FALSE),
    Upload(TRUE, <<".", ".">>, <<"T">>, FALSE, FALSE),
    Upload(TRUE, <<".">>, <<"T">>, FALSE, FALSE),
    Upload(TRUE, <<"x", "/", "g">>, <<"T">>, FALSE, FALSE),
    Upload(TRUE, <<"g">>, <<"T">>, TRUE, FALSE),
    Upload(TRUE, <<"g">>, <<"T">>, FALSE, TRUE) }

NoUpload == Upload(FALSE, <<>>, <<>>, FALSE, FALSE)

\* How many requests a run serves.
MaxSteps == 2

(***************************************************************************)
(* The service: one request at a time                                      *)
(***************************************************************************)
\* The last request served: its operation and inputs, the filesystem before
\* it, and its outcome.
Served(op, p, q, file, r) ==
  [op |-> op, path |-> p, path2 |-> q, file |-> file, before |-> fs,
   err |-> r.err, touched |-> r.touched, list |-> r.list]

Init ==
  /\ fs \in Layouts
  /\ last = [op |-> "none", path |-> <<>>, path2 |-> <<>>, file |-> NoUpload, before |-> fs,
             err |-> "OK", touched |-> {}, list |-> <<>>]
  /\ steps = 0
  /\ calls = <<>>

Serve(op, p, q, file, result) ==
  /\ steps < MaxSteps
  /\ \E r \in {result} :
       /\ fs' = r.fs
       /\ last' = Served(op, p, q, file, r)
  /\ steps' = steps + 1
  /\ UNCHANGED calls

CreateDir == \E p \in Paths : Serve("CreateDir", p, <<>>, NoUpload, CreateDirResult(fs, p))

DeleteDir == \E p \in Paths : Serve("DeleteDir", p, <<>>, NoUpload, DeleteDirResult(fs, p))

RenameDir ==
  \E p \in OldPaths, q \in NewPaths :
    Serve("RenameDir", p, q, NoUpload, RenameDirResult(fs, p, q))

CreateFile ==
  \E p \in DirPaths, u \in Uploads :
    Serve("CreateFile", p, <<>>, u, CreateFileResult(fs, p, u))

GetFiles == \E p \in Paths : Serve("GetFiles", p, <<>>, NoUpload, GetFilesResult(fs, p))

DeleteFile == \E p \in Paths : Serve("DeleteFile", p, <<>>, NoUpload, DeleteFileResult(fs, p))

RenameFile ==
  \E p \in OldPaths, q \in NewPaths :
    Serve("RenameFile", p, q, NoUpload, RenameFileResult(fs, p, q))

Next ==
  \/ CreateDir
  \/ DeleteDir
  \/ RenameDir
  \/ CreateFile
  \/ GetFiles
  \/ DeleteFile
  \/ RenameFile

Spec == Init /\ [][Next]_vars

(***************************************************************************)
(* Two concurrent CreateFile calls, step by step                           *)
(***************************************************************************)
Procs == {1, 2}

RaceDirs == { <<>>, <<"a">> }

RaceUploads ==
  { Upload(TRUE, <<"g">>, <<"T">>, FALSE, FALSE),
    Upload(TRUE, <<"g">>, <<"B", "T">>, FALSE, FALSE),
    Upload(TRUE, <<"x">>, <<"T">>, FALSE, FALSE) }

\* A call in progress: pc is the step it is at, filename the path it checked,
\* dst the file it holds open, err its result once pc is "done".
Call(p, u) ==
  [pc |-> "check", path |-> p, file |-> u, err |-> "", filename |-> <<>>, dst |-> <<>>]

RaceInit ==
  /\ fs \in Layouts
  /\ last = [op |-> "none", path |-> <<>>, path2 |-> <<>>, file |-> NoUpload, before |-> fs,
             err |-> "OK", touched |-> {}, list |-> <<>>]
  /\ steps = 0
  /\ calls \in [Procs -> {Call(p, u) : p \in RaceDirs, u \in RaceUploads}]

Done(c, e) == [c EXCEPT !.pc = "done", !.err = e]

\* The validation, the directory checks, the existence check, and Open.
CheckStep(i) ==
  /\ calls[i].pc = "check"
  /\ \E c \in {calls[i]} : \E chk \in {CreateFileCheck(fs, c.path, c.file)} :
       calls' = [calls EXCEPT ![i] =
                   IF chk.err # "OK" THEN Done(c, chk.err)
                   ELSE IF c.file.openErr THEN Done(c, "OSError")
                   ELSE [c EXCEPT !.pc = "create", !.filename = chk.filename]]
  /\ UNCHANGED <<fs, last, steps>>

\* os.Create
CreateStep(i) ==
  /\ calls[i].pc = "create"
  /\ \E c \in {calls[i]} : \E mk \in {Create(fs, c.filename)} :
       /\ fs' = mk.fs
       /\ calls' = [calls EXCEPT ![i] =
                      IF mk.err # "" THEN Done(c, "OSError")
                      ELSE [c EXCEPT !.pc = "copy", !.dst = Stat(fs, c.filename).phys]]
  /\ UNCHANGED <<last, steps>>

\* io.Copy, and the return.
CopyStep(i) ==
  /\ calls[i].pc = "copy"
  /\ \E c \in {calls[i]} : \E cp \in {CreateFileCopy(fs, c.dst, c.file)} :
       /\ fs' = cp.fs
       /\ calls' = [calls EXCEPT ![i] = Done(c, OsErr(cp.err))]
  /\ UNCHANGED <<last, steps>>

RaceNext == \E i \in Procs : CheckStep(i) \/ CreateStep(i) \/ CopyStep(i)

SpecRace == RaceInit /\ [][RaceNext]_vars

(***************************************************************************)
(* The loop over the parent directories, one iteration at a time           *)
(***************************************************************************)
\* One iteration without the test for the filesystem root.
AncestorStepToBase(f, current) ==
  IF current = baseAbs THEN [verdict |-> "ok", current |-> current]
  ELSE Only({
         IF st.err # "" THEN [verdict |-> "staterr", current |-> current]
         ELSE IF IsSymlink(f, st) THEN [verdict |-> "symlink", current |-> current]
         ELSE [verdict |-> "next", current |-> Dir(current)]
         : st \in {Lstat(f, current)}})

\* One iteration of the loop at current: it breaks ("ok"), returns an error
\* ("staterr", "symlink"), or goes on with the parent directory ("next").
AncestorStep(f, current) ==
  IF current = baseAbs \/ current = <<Sep>> THEN [verdict |-> "ok", current |-> current]
  ELSE Only({
         IF st.err # "" THEN [verdict |-> "staterr", current |-> current]
         ELSE IF IsSymlink(f, st) THEN [verdict |-> "symlink", current |-> current]
         ELSE [verdict |-> "next", current |-> Dir(current)]
         : st \in {Lstat(f, current)}})

\* The paths the loops start at: the targets of the requests and their parent
\* directories, the root among them, and paths the root is no ancestor of.
LoopStarts ==
  {TargetAbs(Clean(p)) : p \in Paths} \cup {Dir(TargetAbs(Clean(p))) : p \in Paths}
    \cup { <<"/", "e", "/", "s", "/", "f">>, <<"/", "v", "/", "d", "/", "e">>,
           <<"/", "v", "/", "d", "/", "t", "/", "1", "/", "2", "/", "3">> }

\* A loop in progress: start is where it began, current where it is, verdict
\* its outcome once pc is "done".
Loop(start) == [pc |-> "loop", start |-> start, current |-> start, verdict |-> ""]

LoopInit ==
  /\ fs \in Layouts
  /\ last = [op |-> "none", path |-> <<>>, path2 |-> <<>>, file |-> NoUpload, before |-> fs,
             err |-> "OK", touched |-> {}, list |-> <<>>]
  /\ steps = 0
  /\ calls \in {Loop(s) : s \in LoopStarts}

\* The exit test holds: break.
LoopBreak ==
  /\ calls.pc = "loop"
  /\ \E r \in {AncestorStep(fs, calls.current)} :
       /\ r.verdict = "ok"
       /\ calls' = [calls EXCEPT !.pc = "done", !.verdict = r.verdict]
  /\ UNCHANGED <<fs, last, steps>>

\* os.Lstat fails, or finds a symbolic link: return.
LoopReturn ==
  /\ calls.pc = "loop"
  /\ \E r \in {AncestorStep(fs, calls.current)} :
       /\ r.verdict \in {"staterr", "symlink"}
       /\ calls' = [calls EXCEPT !.pc = "done", !.verdict = r.verdict]
  /\ UNCHANGED <<fs, last, steps>>

\* current = filepath.Dir(current)
LoopUp ==
  /\ calls.pc = "loop"
  /\ \E r \in {AncestorStep(fs, calls.current)} :
       /\ r.verdict = "next"
       /\ calls' = [calls EXCEPT !.current = r.current]
  /\ UNCHANGED <<fs, last, steps>>

LoopNext == LoopBreak \/ LoopReturn \/ LoopUp

\* The loop runs in one goroutine that is never suspended for ever.
SpecLoop == LoopInit /\ [][LoopNext]_vars /\ WF_vars(LoopNext)

(***************************************************************************)
(* A rename and a concurrent creation, step by step                        *)
(***************************************************************************)
\* The validation of RenameDir, before its first system call.
RenameDirValid(oldPath, newPath) ==
  /\ oldPath # <<>> /\ newPath # <<>>
  /\ \A clean \in {Clean(oldPath), Clean(newPath)} :
       /\ clean # Dot /\ ~HasPrefix(clean, DotDot)
       /\ ~HasPrefix(Rel(baseAbs, TargetAbs(clean)), DotDot)

\* The validation of RenameFile, before its first system call.
RenameFileValid(oldPath, newPath) ==
  /\ oldPath # <<>> /\ newPath # <<>>
  /\ \A clean \in {Clean(oldPath), Clean(newPath)} :
       /\ clean # Dot /\ ~HasPrefix(clean, DotDot)
       /\ ~HasPrefix(Rel(baseAbs, TargetAbs(clean)), DotDot)

\* The validation of CreateDir, before its first system call.
CreateDirValid(path) ==
  /\ path # <<>>
  /\ \A cleanPath \in {Clean(path)} :
       /\ cleanPath # Dot /\ cleanPath # <<Sep>> /\ ~HasPrefix(cleanPath, DotDot)
       /\ ~HasPrefix(Rel(baseAbs, TargetAbs(cleanPath)), DotDot)
       /\ Rel(baseAbs, TargetAbs(cleanPath)) # Dot

\* The path of target's ancestor, or of target itself, just below current.
ChildToward(current, target) ==
  PathOf(SubSeq(Names(target), 1, Len(Names(current)) + 1))

\* The renames and the creations that meet.  A call makes one system call in
\* a step: pc is the call it is at, which the path whose parents the loop is
\* at, current the path the loop or os.MkdirAll is at.  hit tells that an
\* entry was at the new path when os.Rename looked last, lost that the rename
\* took its place.
RenameCalls ==
  { [pc |-> "checks", op |-> o, old |-> p, new |-> q, err |-> "", hit |-> FALSE, lost |-> FALSE,
     which |-> "old", current |-> <<>>]
      : o \in {"RenameFile", "RenameDir"}, p \in { <<"a">>, <<"b">>, <<"a", "/", "g">> },
        q \in { <<"x">>, <<"c">> } }

CreateCalls ==
  {Call(<<>>, u) : u \in {Upload(TRUE, <<"x">>, <<"T">>, FALSE, FALSE),
                          Upload(TRUE, <<"c">>, <<"B", "T">>, FALSE, FALSE)}}
    \cup { [pc |-> "dircheck", path |-> p, err |-> "", current |-> <<>>]
             : p \in { <<"x">>, <<"x", "/", "y">> } }

\* An open file whose name was taken by a rename: it is no entry any more.
Unlinked == << <<>> >>

MeetInit ==
  /\ fs \in Layouts
  /\ last = [op |-> "none", path |-> <<>>, path2 |-> <<>>, file |-> NoUpload, before |-> fs,
             err |-> "OK", touched |-> {}, list |-> <<>>]
  /\ steps = 0
  /\ calls \in {(1 :> r) @@ (2 :> c) : r \in RenameCalls, c \in CreateCalls}

\* The validation of the rename: RenameDir goes on to the existence checks,
\* RenameFile to the loops over the parent directories.
RenameChecks ==
  /\ calls[1].pc = "checks"
  /\ \E c \in {calls[1]} :
       calls' = [calls EXCEPT ![1] =
         IF c.op = "RenameDir"
           THEN IF RenameDirValid(c.old, c.new) THEN [c EXCEPT !.pc = "lstatold"]
                ELSE Done(c, "InvalidPath")
         ELSE IF RenameFileValid(c.old, c.new)
           THEN [c EXCEPT !.pc = "loop", !.which = "old",
                          !.current = Dir(TargetAbs(Clean(c.old)))]
         ELSE Done(c, "InvalidPath")]
  /\ UNCHANGED <<fs, last, steps>>

\* RenameDir: os.Lstat(oldAbs)
RenameDirLstatOld ==
  /\ calls[1].pc = "lstatold"
  /\ \E c \in {calls[1]} : \E so \in {Lstat(fs, TargetAbs(Clean(c.old)))} :
       calls' = [calls EXCEPT ![1] =
         IF so.err = "ENOENT" THEN Done(c, "OldDirNotFound")
         ELSE IF so.err # "" THEN Done(c, "OSError")
         ELSE IF ~IsDir(fs, so) THEN Done(c, "InvalidPath")
         ELSE [c EXCEPT !.pc = "lstatnew"]]
  /\ UNCHANGED <<fs, last, steps>>

\* RenameDir: os.Lstat(newAbs)
RenameDirLstatNew ==
  /\ calls[1].pc = "lstatnew"
  /\ \E c \in {calls[1]} : \E sn \in {Lstat(fs, TargetAbs(Clean(c.new)))} :
       calls' = [calls EXCEPT ![1] =
         IF sn.err = "" THEN Done(c, "DirNewExist")
         ELSE [c EXCEPT !.pc = "loop", !.which = "old",
                        !.current = Dir(TargetAbs(Clean(c.old)))]]
  /\ UNCHANGED <<fs, last, steps>>

\* One iteration of the loops over the parent directories of the old and the
\* new path: at the break of the first loop the second begins, at the break
\* of the second RenameDir goes on to os.Rename and RenameFile to its
\* existence checks.
RenameLoop ==
  /\ calls[1].pc = "loop"
  /\ \E c \in {calls[1]} : \E r \in {AncestorStep(fs, c.current)} :
       calls' = [calls EXCEPT ![1] =
         IF r.verdict = "next" THEN [c EXCEPT !.current = r.current]
         ELSE IF r.verdict # "ok" THEN Done(c, "InvalidPath")
         ELSE IF c.which = "old"
           THEN [c EXCEPT !.which = "new", !.current = Dir(TargetAbs(Clean(c.new)))]
         ELSE [c EXCEPT !.pc = IF c.op = "RenameDir" THEN "rename" ELSE "statold"]]
  /\ UNCHANGED <<fs, last, steps>>

\* RenameFile: os.Stat(oldAbs)
RenameFileStatOld ==
  /\ calls[1].pc = "statold"
  /\ \E c \in {calls[1]} : \E so \in {Stat(fs, TargetAbs(Clean(c.old)))} :
       calls' = [calls EXCEPT ![1] =
         IF so.err = "ENOENT" THEN Done(c, "OldFileNotFound")
         ELSE IF so.err # "" THEN Done(c, "OSError")
         ELSE IF IsDir(fs, so) THEN Done(c, "InvalidPath")
         ELSE [c EXCEPT !.pc = "statnew"]]
  /\ UNCHANGED <<fs, last, steps>>

\* RenameFile: os.Stat(newAbs)
RenameFileStatNew ==
  /\ calls[1].pc = "statnew"
  /\ \E c \in {calls[1]} : \E e \in {NewFileCheck(fs, Stat(fs, TargetAbs(Clean(c.new))))} :
       calls' = [calls EXCEPT ![1] =
         IF e # "OK" THEN Done(c, e) ELSE [c EXCEPT !.pc = "rename"]]
  /\ UNCHANGED <<fs, last, steps>>

\* os.Rename, its os.Lstat of the new name.
RenameCallLstat ==
  /\ calls[1].pc = "rename"
  /\ \E c \in {calls[1]} :
       \E pre \in {RenameLstat(fs, TargetAbs(Clean(c.old)), TargetAbs(Clean(c.new)))} :
         calls' = [calls EXCEPT ![1] =
           IF pre.err # "" THEN [Done(c, "OSError") EXCEPT !.hit = TRUE]
           ELSE [c EXCEPT !.pc = "syscall"]]
  /\ UNCHANGED <<fs, last, steps>>

\* os.Rename, its rename(2).
RenameCall ==
  /\ calls[1].pc = "syscall"
  /\ \E c \in {calls[1]} :
       \E newAbs \in {TargetAbs(Clean(c.new))} :
         \E mv \in {RenameSyscall(fs, TargetAbs(Clean(c.old)), newAbs)} :
           /\ fs' = mv.fs
           /\ calls' = [calls EXCEPT
                ![1] = [Done(c, OsErr(mv.err)) EXCEPT
                          !.hit = Lstat(fs, newAbs).err = "",
                          !.lost = Lstat(fs, newAbs).err = "" /\ mv.err = ""],
                ![2] = IF calls[2].pc = "copy" /\ calls[2].dst = Lstat(fs, newAbs).phys
                            /\ mv.err = ""
                         THEN [calls[2] EXCEPT !.dst = Unlinked] ELSE calls[2]]
  /\ UNCHANGED <<last, steps>>

\* The validation of CreateDir.
DirChecks ==
  /\ calls[2].pc = "dircheck"
  /\ \E c \in {calls[2]} :
       calls' = [calls EXCEPT ![2] =
         IF CreateDirValid(c.path) THEN [c EXCEPT !.pc = "lstat"] ELSE Done(c, "InvalidPath")]
  /\ UNCHANGED <<fs, last, steps>>

\* CreateDir: os.Lstat(targetAbs)
DirLstat ==
  /\ calls[2].pc = "lstat"
  /\ \E c \in {calls[2]} : \E st \in {Lstat(fs, TargetAbs(Clean(c.path)))} :
       calls' = [calls EXCEPT ![2] =
         IF st.err = "" THEN Done(c, IF IsDir(fs, st) THEN "DirExist" ELSE "InvalidPath")
         ELSE IF st.err # "ENOENT" THEN Done(c, "StatError")
         ELSE [c EXCEPT !.pc = "loop", !.current = Dir(TargetAbs(Clean(c.path)))]]
  /\ UNCHANGED <<fs, last, steps>>

\* CreateDir: one iteration of the loop over the parent directories; at the
\* break os.MkdirAll begins, at the target.
DirLoop ==
  /\ calls[2].pc = "loop"
  /\ \E c \in {calls[2]} : \E r \in {AncestorStep(fs, c.current)} :
       calls' = [calls EXCEPT ![2] =
         IF r.verdict = "next" THEN [c EXCEPT !.current = r.current]
         ELSE IF r.verdict = "staterr" THEN Done(c, "StatError")
         ELSE IF r.verdict = "symlink" THEN Done(c, "InvalidPath")
         ELSE [c EXCEPT !.pc = "mkstat", !.current = TargetAbs(Clean(c.path))]]
  /\ UNCHANGED <<fs, last, steps>>

\* os.MkdirAll, the os.Stat it begins with at every level: a directory there
\* ends the level, another entry the call; with nothing there the parent is
\* next, and the os.Mkdir of this level when there is no parent.
MkdirAllStat ==
  /\ calls[2].pc = "mkstat"
  /\ \E c \in {calls[2]} : \E st \in {Stat(fs, c.current)} :
       calls' = [calls EXCEPT ![2] =
         IF st.err = "" /\ ~IsDir(fs, st) THEN Done(c, "OSError")
         ELSE IF st.err = "" /\ c.current = TargetAbs(Clean(c.path)) THEN Done(c, "OK")
         ELSE IF st.err = ""
           THEN [c EXCEPT !.pc = "mkdir",
                          !.current = ChildToward(c.current, TargetAbs(Clean(c.path)))]
         ELSE IF Names(c.current) = <<>> THEN [c EXCEPT !.pc = "mkdir"]
         ELSE [c EXCEPT !.current = Dir(c.current)]]
  /\ UNCHANGED <<fs, last, steps>>

\* os.MkdirAll, the os.Mkdir of one level: the level below is next, down to
\* the target.
MkdirCall ==
  /\ calls[2].pc = "mkdir"
  /\ \E c \in {calls[2]} : \E mk \in {Mkdir(fs, c.current)} :
       /\ fs' = mk.fs
       /\ calls' = [calls EXCEPT ![2] =
            IF mk.err # "" THEN [c EXCEPT !.pc = "mklstat"]
            ELSE IF c.current = TargetAbs(Clean(c.path)) THEN Done(c, "OK")
            ELSE [c EXCEPT !.current = ChildToward(c.current, TargetAbs(Clean(c.path)))]]
  /\ UNCHANGED <<last, steps>>

\* os.MkdirAll, the os.Lstat after a failed os.Mkdir: a directory there makes
\* the level a success.
MkdirAllLstat ==
  /\ calls[2].pc = "mklstat"
  /\ \E c \in {calls[2]} : \E st \in {Lstat(fs, c.current)} :
       calls' = [calls EXCEPT ![2] =
         IF ~(st.err = "" /\ IsDir(fs, st)) THEN Done(c, "OSError")
         ELSE IF c.current = TargetAbs(Clean(c.path)) THEN Done(c, "OK")
         ELSE [c EXCEPT !.pc = "mkdir",
                        !.current = ChildToward(c.current, TargetAbs(Clean(c.path)))]]
  /\ UNCHANGED <<fs, last, steps>>

MeetNext ==
  \/ RenameChecks
  \/ RenameDirLstatOld
  \/ RenameDirLstatNew
  \/ RenameLoop
  \/ RenameFileStatOld
  \/ RenameFileStatNew
  \/ RenameCallLstat
  \/ RenameCall
  \/ DirChecks
  \/ DirLstat
  \/ DirLoop
  \/ MkdirAllStat
  \/ MkdirCall
  \/ MkdirAllLstat
  \/ CheckStep(2)
  \/ CreateStep(2)
  \/ CopyStep(2)

SpecMeet == MeetInit /\ [][MeetNext]_vars

(***************************************************************************)
(* The adapters without path checks                                        *)
(***************************************************************************)
\* os.IsExist and os.IsNotExist on the error of a system call.
IsExist(e) == e \in {"EEXIST", "ENOTEMPTY"}

IsNotExist(e) == e = "ENOENT"

\* The full path of the directory adapter, of DeleteFile and of RenameFile: the
\* root, a separator, and the path as it came.
FullPath(p) == storeLocalRootPath \o <<Sep>> \o p

\* The full path of CreateFile and GetFiles: the root alone for the empty path.
FullDirPath(p) == IF p = <<>> THEN storeLocalRootPath ELSE FullPath(p)

NaiveCreateDirResult(f, p) ==
  Only({
    IF st.err # "" /\ IsExist(st.err) THEN Res("DirExist", f, {st.phys})
    ELSE Only({Res(OsErr(mk.err), mk.fs, {st.phys} \cup mk.touched)
                : mk \in {MkdirAll(f, path)}})
    : path \in {FullPath(p)}, st \in {Stat(f, FullPath(p))}})

NaiveDeleteDirResult(f, p) ==
  Only({
    IF st.err # "" /\ IsNotExist(st.err) THEN Res("DirNotFound", f, {st.phys})
    ELSE Only({Res(OsErr(rm.err), rm.fs, {st.phys} \cup rm.touched)
                : rm \in {RemoveAll(f, path)}})
    : path \in {FullPath(p)}, st \in {Stat(f, FullPath(p))}})

NaiveRenameDirResult(f, old, new) ==
  Only({
    IF so.err # "" /\ IsNotExist(so.err) THEN Res("OldDirNotFound", f, {so.phys})
    ELSE IF sn.err = "" THEN Res("DirNewExist", f, {so.phys, sn.phys})
    ELSE Only({Res(OsErr(mv.err), mv.fs, {so.phys, sn.phys} \cup mv.touched)
                : mv \in {Rename(f, FullPath(old), FullPath(new))}})
    : so \in {Stat(f, FullPath(old))}, sn \in {Stat(f, FullPath(new))}})

\* The directory is tested first; data.File.Filename of a nil header, read
\* after that test, is a nil pointer dereference.
NaiveCreateFileResult(f, p, file) ==
  Only({
    IF sd.err # "" /\ IsNotExist(sd.err) THEN Res("DirNotFound", f, {sd.phys})
    ELSE IF ~file.hdr THEN Res("Panic", f, {sd.phys})
    ELSE Only({
           Only({
             IF sf.err = "" THEN Res("FileExist", f, {sd.phys, sf.phys})
             ELSE CreateFileWrite(f, filename, file, {sd.phys, sf.phys})
             : sf \in {Stat(f, filename)}})
           : filename \in {FullDirPath(p) \o <<Sep>> \o file.name}})
    : sd \in {Stat(f, FullDirPath(p))}})

NaiveGetFilesResult(f, p) ==
  Only({
    IF st.err # "" /\ IsNotExist(st.err) THEN Res("DirNotFound", f, {st.phys})
    ELSE IF st.err # "" \/ ~IsDir(f, st) THEN Res("OSError", f, {st.phys})
    ELSE Only({
           Only({
             [err |-> "OK", fs |-> f,
              touched |-> ListingTouched(f, fullPath, st.phys, names),
              list |-> SortSlice(response)]
             : response \in {[i \in 1..Len(names) |->
                                FileResult(f, fullPath, st.phys, names[i])]}})
           : names \in {ReadDir(f, st.phys)}})
    : fullPath \in {FullDirPath(p)}, st \in {Stat(f, FullDirPath(p))}})

NaiveDeleteFileResult(f, p) ==
  Only({
    IF st.err # "" /\ IsNotExist(st.err) THEN Res("FileNotFound", f, {st.phys})
    ELSE Only({Res(OsErr(rm.err), rm.fs, {st.phys} \cup rm.touched)
                : rm \in {Remove(f, path)}})
    : path \in {FullPath(p)}, st \in {Stat(f, FullPath(p))}})

NaiveRenameFileResult(f, old, new) ==
  Only({
    IF so.err # "" /\ IsNotExist(so.err) THEN Res("OldFileNotFound", f, {so.phys})
    ELSE IF sn.err = "" THEN Res("FileNewExist", f, {so.phys, sn.phys})
    ELSE Only({Res(OsErr(mv.err), mv.fs, {so.phys, sn.phys} \cup mv.touched)
                : mv \in {Rename(f, FullPath(old), FullPath(new))}})
    : so \in {Stat(f, FullPath(old))}, sn \in {Stat(f, FullPath(new))}})

\* The raw paths sent to these adapters: relative paths of plain names.
PlainPaths ==
  { <<"a">>, <<"a", "/", "g">>, <<"b">>, <<"c">>, <<"x">>, <<"x", "/", "y">>, <<"t">>,
    <<"t", "/", "1">> }

PlainOldPaths == { <<"a">>, <<"a", "/", "g">>, <<"b">>, <<"x">> }

PlainNewPaths == { <<"b">>, <<"c">>, <<"x">>, <<"x", "/", "y">> }

PlainDirPaths == { <<>>, <<"a">>, <<"b">>, <<"x">> }

PlainUploads ==
  { Upload(TRUE, <<"g">>, <<"T">>, FALSE, FALSE),
    Upload(TRUE, <<"n">>, <<"B", "T">>, FALSE, FALSE),
    Upload(TRUE, <<"x">>, <<"T">>, TRUE, FALSE),
    Upload(TRUE, <<"x">>, <<"T">>, FALSE, TRUE) }

NaiveCreateDir ==
  \E p \in PlainPaths : Serve("CreateDir", p, <<>>, NoUpload, NaiveCreateDirResult(fs, p))

NaiveDeleteDir ==
  \E p \in PlainPaths : Serve("DeleteDir", p, <<>>, NoUpload, NaiveDeleteDirResult(fs, p))

NaiveRenameDir ==
  \E p \in PlainOldPaths, q \in PlainNewPaths :
    Serve("RenameDir", p, q, NoUpload, NaiveRenameDirResult(fs, p, q))

NaiveCreateFile ==
  \E p \in PlainDirPaths, u \in PlainUploads :
    Serve("CreateFile", p, <<>>, u, NaiveCreateFileResult(fs, p, u))

NaiveGetFiles ==
  \E p \in PlainDirPaths : Serve("GetFiles", p, <<>>, NoUpload, NaiveGetFilesResult(fs, p))

NaiveDeleteFile ==
  \E p \in PlainPaths : Serve("DeleteFile", p, <<>>, NoUpload, NaiveDeleteFileResult(fs, p))

NaiveRenameFile ==
  \E p \in PlainOldPaths, q \in PlainNewPaths :
    Serve("RenameFile", p, q, NoUpload, NaiveRenameFileResult(fs, p, q))

NaiveNext ==
  \/ NaiveCreateDir
  \/ NaiveDeleteDir
  \/ NaiveRenameDir
  \/ NaiveCreateFile
  \/ NaiveGetFiles
  \/ NaiveDeleteFile
  \/ NaiveRenameFile

SpecNaive == Init /\ [][NaiveNext]_vars

(***************************************************************************)
(* Vocabulary of the properties                                            *)
(***************************************************************************)
Operations ==
  {"CreateDir", "DeleteDir", "RenameDir", "CreateFile", "GetFiles", "DeleteFile", "RenameFile"}

BaseNames == Names(baseAbs)

\* A physical path at or below the storage root.
Inside(q) == IsPrefix(BaseNames, q)

\* The path a raw path names under the root, by the text alone.
TargetOf(p) == Abs(Join(baseAbs, Clean(p)))

\* A raw path the validation of the adapters lets through, naming a place
\* strictly below the root.
Contained(p) ==
  /\ p # <<>>
  /\ Clean(p) # Dot
  /\ ~HasPrefix(Clean(p), DotDot)
  /\ TargetOf(p) # baseAbs
  /\ Inside(Names(TargetOf(p)))

Exists(f, path) == Lstat(f, path).err = ""

KindAt(f, path) == IF Exists(f, path) THEN f[Lstat(f, path).phys].kind ELSE "none"

\* The directories strictly between a path and the root.
AncestorsOf(path) ==
  IF ~Inside(Names(path)) THEN {}
  ELSE {PathOf(SubSeq(Names(path), 1, k)) : k \in (Len(BaseNames) + 1)..(Len(Names(path)) - 1)}

\* Every directory between the path and the root is there, and is a directory.
PlainAncestors(f, path) == \A a \in AncestorsOf(path) : KindAt(f, a) = "dir"

\* A symbolic link that resolves (or dangles) outside the root.
EscapingLink(f, path) == KindAt(f, path) = "link" /\ ~Inside(Stat(f, path).phys)

HasDotDotSegment(p) == \E i \in 1..Len(Split(p)) : Split(p)[i] = DotDot

\* The raw paths of the last request.
LastPaths ==
  IF last.op \in {"RenameDir", "RenameFile"} THEN {last.path, last.path2} ELSE {last.path}

SentUpload == last.file.hdr /\ last.file.name # <<>>

\* The path of the file the last CreateFile was asked to create.
UploadTarget == Join(TargetOf(last.path), Base(last.file.name))

Unchanged == fs = last.before

(***************************************************************************)
(* C1                                                                      *)
(***************************************************************************)
\* C1: no operation stats, reads, creates, renames or removes a filesystem
\* object outside the storage root.
C1_TouchesOnlyInside == \A q \in last.touched : Inside(q)

(***************************************************************************)
(* C2                                                                      *)
(***************************************************************************)
UnsafePath(f, p) ==
  HasDotDotSegment(p) \/ IsAbs(p) \/ ~Inside(Stat(f, TargetOf(p)).phys)

\* C2: a request whose path has a ".." segment or a leading "/", or resolves
\* outside the root, is answered InvalidPath and leaves the filesystem as it was.
C2_UnsafePathRejected ==
  ( /\ last.op \in Operations
    /\ last.op = "CreateFile" => SentUpload
    /\ \E p \in LastPaths : UnsafePath(last.before, p) )
  => (last.err = "InvalidPath" /\ Unchanged)

(***************************************************************************)
(* C3                                                                      *)
(***************************************************************************)
\* The paths the last request acts on.
LastTargets ==
  IF last.op = "CreateFile" THEN {UploadTarget} ELSE {TargetOf(p) : p \in LastPaths}

EscapingAncestor(f, path) == \E a \in AncestorsOf(path) : EscapingLink(f, a)

EscapingEntryBelow(f, path) ==
  /\ Exists(f, path)
  /\ \E q \in Subtree(f, Lstat(f, path).phys) : f[q].kind = "link" /\ EscapingLink(f, PathOf(q))

\* C3: an operation whose target has an ancestor that is a symbolic link out of
\* the root, or a DeleteDir whose subtree holds such a link, is rejected and
\* changes nothing.
C3_EscapingLinkRejected ==
  ( /\ last.op \in Operations
    /\ last.op = "CreateFile" => SentUpload
    /\ \/ \E t \in LastTargets : EscapingAncestor(last.before, t)
       \/ last.op = "DeleteDir" /\ EscapingEntryBelow(last.before, TargetOf(last.path)) )
  => (last.err # "OK" /\ Unchanged)

(***************************************************************************)
(* C4                                                                      *)
(***************************************************************************)
\* C4: CreateDir or CreateFile on a target that exists returns an error and
\* changes nothing; DeleteDir, DeleteFile, RenameDir or RenameFile on a target
\* that does not exist returns an error and changes nothing.
C4_NoOverwriteNoPartial ==
  /\ (last.op = "CreateDir" /\ Exists(last.before, TargetOf(last.path)))
       => (last.err # "OK" /\ Unchanged)
  /\ (last.op = "CreateFile" /\ SentUpload /\ Exists(last.before, UploadTarget))
       => (last.err # "OK" /\ Unchanged)
  /\ (last.op \in {"DeleteDir", "DeleteFile", "RenameDir", "RenameFile"}
        /\ ~Exists(last.before, TargetOf(last.path)))
       => (last.err # "OK" /\ Unchanged)

(***************************************************************************)
(* C5                                                                      *)
(***************************************************************************)
\* Two calls for the same directory and file name, either of which would
\* succeed alone, have both returned.
SameFileRaceOver ==
  /\ calls # <<>>
  /\ \A i \in Procs : calls[i].pc = "done"
  /\ calls[1].path = calls[2].path
  /\ Base(calls[1].file.name) = Base(calls[2].file.name)
  /\ \A i \in Procs : CreateFileResult(last.before, calls[i].path, calls[i].file).err = "OK"

\* C5: of two concurrent CreateFile calls for the same file, exactly one
\* succeeds and the other returns FileExist.
C5_OneCreateWins ==
  SameFileRaceOver => {calls[1].err, calls[2].err} = {"OK", "FileExist"}

(***************************************************************************)
(* C6                                                                      *)
(***************************************************************************)
DataAt(f, path) == f[Lstat(f, path).phys].data

OldTarget == TargetOf(last.path)

NewTarget == TargetOf(last.path2)

\* The rename took place: new holds the bytes old held, and old is gone.
FileMoved ==
  /\ last.err = "OK"
  /\ KindAt(fs, NewTarget) = "file"
  /\ DataAt(fs, NewTarget) = DataAt(last.before, OldTarget)
  /\ ~Exists(fs, OldTarget)

\* C6 as stated: RenameFile(old, new) with old an existing file and new absent
\* moves the file; with new an existing file it returns FileNewExist and
\* changes nothing.
C6_AsStated ==
  (last.op = "RenameFile" /\ KindAt(last.before, OldTarget) = "file")
  => /\ ~Exists(last.before, NewTarget) => FileMoved
     /\ KindAt(last.before, NewTarget) = "file" => (last.err = "FileNewExist" /\ Unchanged)

\* Both paths pass the validation, and the directories between each of them
\* and the root exist and are no symbolic links.
RenameReachable ==
  /\ Contained(last.path) /\ Contained(last.path2)
  /\ PlainAncestors(last.before, OldTarget)
  /\ PlainAncestors(last.before, NewTarget)

\* C6, amended: the same, for two paths whose parent directories exist and are
\* reached through no symbolic link.
C6_RenameFile ==
  (last.op = "RenameFile" /\ KindAt(last.before, OldTarget) = "file" /\ RenameReachable)
  => /\ ~Exists(last.before, NewTarget) => FileMoved
     /\ KindAt(last.before, NewTarget) = "file" => (last.err = "FileNewExist" /\ Unchanged)

C6_Witness ==
  /\ last.op = "RenameFile" /\ KindAt(last.before, OldTarget) = "file" /\ RenameReachable
  /\ ~Exists(last.before, NewTarget)
  /\ FileMoved
  /\ DataAt(fs, NewTarget) # <<>>

(***************************************************************************)
(* C7                                                                      *)
(***************************************************************************)
\* A raw path of one name that passes the validation.
SingleName(p) == Len(Split(p)) = 1 /\ Contained(p)

NamesListed(list) == {list[i].name : i \in 1..Len(list)}

\* C7: for a single name x that does not exist, CreateDir(x) succeeds; then a
\* second CreateDir(x) returns DirExist, and DeleteDir(x) succeeds and leaves a
\* root whose listing does not hold x.
C7_RoundTrip ==
  (last.op = "CreateDir" /\ SingleName(last.path) /\ ~Exists(last.before, TargetOf(last.path)))
  => /\ last.err = "OK"
     /\ CreateDirResult(fs, last.path).err = "DirExist"
     /\ LET del == DeleteDirResult(fs, last.path)
            lst == GetFilesResult(del.fs, <<>>)
        IN /\ del.err = "OK"
           /\ lst.err = "OK"
           /\ last.path \notin NamesListed(lst.list)

C7_Witness ==
  /\ last.op = "CreateDir" /\ SingleName(last.path) /\ ~Exists(last.before, TargetOf(last.path))
  /\ last.err = "OK"
  /\ last.path \in NamesListed(GetFilesResult(fs, <<>>).list)
  /\ GetFilesResult(DeleteDirResult(fs, last.path).fs, <<>>).list # <<>>

(***************************************************************************)
(* C8                                                                      *)
(***************************************************************************)
\* The directory the last GetFiles listed.
ListedDir == Stat(last.before, TargetOf(last.path)).phys

\* A request for a directory that is there, reached through no symbolic link,
\* and holds nothing.
EmptyDirRequested ==
  /\ ~HasPrefix(Clean(last.path), DotDot)
  /\ Inside(Names(TargetOf(last.path)))
  /\ PlainAncestors(last.before, TargetOf(last.path))
  /\ KindAt(last.before, TargetOf(last.path)) = "dir"
  /\ ChildNames(last.before, ListedDir) = {}

\* C8: a successful GetFiles returns one descriptor for each immediate child
\* and no other, the directories first and each group in ascending name order;
\* an empty directory gives the empty sequence and no error.
C8_Listing ==
  /\ (last.op = "GetFiles" /\ last.err = "OK")
     => LET L == last.list
            children == ChildNames(last.before, ListedDir)
        IN /\ Len(L) = Cardinality(children)
           /\ NamesListed(L) = children
           /\ \A i \in 1..Len(L) :
                L[i].isDir <=> last.before[Append(ListedDir, L[i].name)].kind = "dir"
           /\ \A i, j \in 1..Len(L) :
                i < j => /\ L[j].isDir => L[i].isDir
                         /\ L[i].isDir = L[j].isDir => StrLess(L[i].name, L[j].name)
  /\ (last.op = "GetFiles" /\ EmptyDirRequested) => (last.err = "OK" /\ last.list = <<>>)

\* A listing of directories and files that is not in the order of the names.
C8_Witness ==
  /\ last.op = "GetFiles" /\ last.err = "OK"
  /\ \E i, j \in 1..Len(last.list) :
       /\ i < j
       /\ last.list[i].isDir /\ ~last.list[j].isDir
       /\ StrLess(last.list[j].name, last.list[i].name)
  /\ \E i, j \in 1..Len(last.list) : i # j /\ ~last.list[i].isDir /\ ~last.list[j].isDir
  /\ \E i, j \in 1..Len(last.list) : i # j /\ last.list[i].isDir /\ last.list[j].isDir

(***************************************************************************)
(* C9                                                                      *)
(***************************************************************************)
\* C9: a DeleteDir that fails on the depth limit, or on a symbolic link that
\* escapes or does not resolve, has removed nothing.
C9_FailedDeleteRemovesNothing ==
  (last.op = "DeleteDir" /\ last.err \in {"DepthExceeded", "SymlinkError"}) => Unchanged

\* The walk went several levels down before it met the entry that is too deep.
C9_Witness ==
  /\ last.op = "DeleteDir" /\ last.err = "DepthExceeded"
  /\ Cardinality(last.touched) > maxDepth
  /\ Cardinality(Subtree(fs, Lstat(fs, TargetOf(last.path)).phys)) > maxDepth

(***************************************************************************)
(* C10                                                                     *)
(***************************************************************************)
\* A path of several names below the root, with a directory on the way missing
\* and nothing but directories on the way.
NestedFreshPath ==
  /\ Contained(last.path)
  /\ ~Exists(last.before, TargetOf(last.path))
  /\ \E a \in AncestorsOf(TargetOf(last.path)) : KindAt(last.before, a) = "none"
  /\ \A a \in AncestorsOf(TargetOf(last.path)) : KindAt(last.before, a) \in {"dir", "none"}

\* C10: CreateDir on such a path succeeds and leaves the directory and the
\* directories on the way to it.
C10_CreatesIntermediates ==
  (last.op = "CreateDir" /\ NestedFreshPath)
  => /\ last.err = "OK"
     /\ KindAt(fs, TargetOf(last.path)) = "dir"
     /\ \A a \in AncestorsOf(TargetOf(last.path)) : KindAt(fs, a) = "dir"

(***************************************************************************)
(* C11                                                                     *)
(***************************************************************************)
MutationOps == {"CreateDir", "DeleteDir", "RenameDir", "DeleteFile", "RenameFile"}

\* A raw path that normalizes to the root itself.
NamesRoot(p) == Clean(p) = Dot \/ Clean(p) = <<Sep>>

\* C11: a CreateDir, DeleteDir, RenameDir, DeleteFile or RenameFile with a path
\* argument that normalizes to "." or "/" returns InvalidPath and changes
\* nothing.
C11_RootRejected ==
  (last.op \in MutationOps /\ \E p \in LastPaths : NamesRoot(p))
  => (last.err = "InvalidPath" /\ Unchanged)

(***************************************************************************)
(* C12                                                                     *)
(***************************************************************************)
\* No symbolic link at the path or at a directory between it and the root.
SymlinkFree(f, path) == \A a \in AncestorsOf(path) \cup {path} : KindAt(f, a) # "link"

\* The last request names, by a valid path without symbolic links, a place
\* below the root where nothing is.
MissingTarget ==
  /\ Contained(last.path)
  /\ SymlinkFree(last.before, TargetOf(last.path))
  /\ ~Exists(last.before, TargetOf(last.path))

\* C12: CreateFile and GetFiles for a directory that does not exist return
\* DirNotFound, whatever the depth of the missing directory.
C12_MissingDirNotFound ==
  ( /\ last.op \in {"CreateFile", "GetFiles"}
    /\ last.op = "CreateFile" => SentUpload
    /\ MissingTarget )
  => last.err = "DirNotFound"

(***************************************************************************)
(* C13                                                                     *)
(***************************************************************************)
\* The last request names, by a valid path without symbolic links, a directory.
DirTarget ==
  /\ Contained(last.path)
  /\ SymlinkFree(last.before, TargetOf(last.path))
  /\ KindAt(last.before, TargetOf(last.path)) = "dir"

\* C13: DeleteFile returns success, InvalidPath or FileNotFound; FileNotFound
\* when the target does not exist (its parent directory may be missing too),
\* InvalidPath for a directory, and nothing is removed in these two cases.
C13_DeleteFileErrors ==
  last.op = "DeleteFile"
  => /\ last.err \in {"OK", "InvalidPath", "FileNotFound"}
     /\ MissingTarget => (last.err = "FileNotFound" /\ Unchanged)
     /\ DirTarget => (last.err = "InvalidPath" /\ Unchanged)

(***************************************************************************)
(* C14                                                                     *)
(***************************************************************************)
\* The last request passes the validation and the checks its operation makes
\* before the loop over the parent directories.
GuardReached ==
  /\ \A p \in LastPaths : Contained(p)
  /\ last.op = "CreateFile" => SentUpload
  /\ last.op = "CreateDir" => Lstat(last.before, TargetOf(last.path)).err = "ENOENT"
  /\ last.op = "RenameDir" => /\ KindAt(last.before, OldTarget) = "dir"
                              /\ ~Exists(last.before, NewTarget)

\* What the loop over the parent directories finds for the last request.
LastGuard ==
  IF last.op \in {"CreateDir", "DeleteFile"}
    THEN AncestorLoop(last.before, Dir(TargetOf(last.path)), {})
  ELSE IF last.op \in {"CreateFile", "GetFiles"}
    THEN AncestorLoop(last.before, TargetOf(last.path), {})
  ELSE IF last.op \in {"RenameDir", "RenameFile"}
    THEN AncestorLoops(last.before, OldTarget, NewTarget, {})
  ELSE [verdict |-> "ok", touched |-> {}]

\* A symbolic link below the target of the last DeleteDir that does not resolve.
UnresolvedEntryBelow ==
  /\ last.op = "DeleteDir"
  /\ Contained(last.path)
  /\ KindAt(last.before, TargetOf(last.path)) = "dir"
  /\ \E q \in Subtree(last.before, Lstat(last.before, TargetOf(last.path)).phys) :
       last.before[q].kind = "link" /\ Stat(last.before, PathOf(q)).err # ""

\* C14: when the stat of a parent directory fails in the loop over the parent
\* directories, or a symbolic link below the target of a DeleteDir does not
\* resolve, the operation returns InvalidPath and changes nothing.
C14_FailClosed ==
  ( \/ last.op \in Operations \ {"DeleteDir"} /\ GuardReached /\ LastGuard.verdict = "staterr"
    \/ UnresolvedEntryBelow )
  => (last.err = "InvalidPath" /\ Unchanged)

(***************************************************************************)
(* C15                                                                     *)
(***************************************************************************)
BothContained == Contained(last.path) /\ Contained(last.path2)

\* Nothing is at the path: lstat reports that it does not exist.
Missing(f, path) == Lstat(f, path).err = "ENOENT"

\* C15: RenameDir with two valid contained paths returns OldDirNotFound when
\* old does not exist or is no directory, DirNewExist when old is a directory
\* and new exists, changes nothing in both cases, and renames only a directory
\* to an absent new path.
C15_RenameDirErrors ==
  (last.op = "RenameDir" /\ BothContained)
  => /\ KindAt(last.before, OldTarget) # "dir" => (last.err = "OldDirNotFound" /\ Unchanged)
     /\ (KindAt(last.before, OldTarget) = "dir" /\ Exists(last.before, NewTarget))
          => (last.err = "DirNewExist" /\ Unchanged)
     /\ ~Unchanged => /\ last.err = "OK"
                      /\ KindAt(last.before, OldTarget) = "dir"
                      /\ ~Exists(last.before, NewTarget)

(***************************************************************************)
(* C16                                                                     *)
(***************************************************************************)
BothSymlinkFree ==
  /\ SymlinkFree(last.before, OldTarget)
  /\ SymlinkFree(last.before, NewTarget)

\* C16: RenameFile with two valid contained, symlink-free paths returns
\* OldFileNotFound when old does not exist (whatever new is, and also when the
\* parent of old is missing), InvalidPath when old is a file and new is a
\* directory, FileNewExist when old is a file and new is a non-directory; it
\* renames nothing in these cases.
C16_RenameFileErrors ==
  (last.op = "RenameFile" /\ BothContained /\ BothSymlinkFree)
  => /\ ~Exists(last.before, OldTarget)
          => (last.err = "OldFileNotFound" /\ Unchanged)
     /\ (KindAt(last.before, OldTarget) = "file" /\ KindAt(last.before, NewTarget) = "dir")
          => (last.err = "InvalidPath" /\ Unchanged)
     /\ (KindAt(last.before, OldTarget) = "file" /\ KindAt(last.before, NewTarget) = "file")
          => (last.err = "FileNewExist" /\ Unchanged)

(***************************************************************************)
(* C17                                                                     *)
(***************************************************************************)
GuardedOps == Operations \ {"DeleteDir"}

\* A directory above the root.
AboveRoot(q) == Len(q) < Len(BaseNames) /\ IsPrefix(q, BaseNames)

LinkOnTheWay == \E t \in LastTargets : \E a \in AncestorsOf(t) : KindAt(last.before, a) = "link"

\* The declared name of the upload, if any, is a plain name, so that the file
\* tested and created lies in the target directory.
PlainUpload == last.op = "CreateFile" => (SentUpload /\ SingleName(last.file.name))

\* C17: the guard of CreateDir, RenameDir, CreateFile, GetFiles, DeleteFile and
\* RenameFile rejects with InvalidPath when a directory strictly between the
\* target and the root is a symbolic link, wherever the link points; when it
\* accepts it has inspected every such directory; it inspects nothing above
\* the root.
C17_AncestorsGuard ==
  (last.op \in GuardedOps /\ PlainUpload)
  => /\ \A q \in last.touched : ~AboveRoot(q)
     /\ (GuardReached /\ LinkOnTheWay) => (last.err = "InvalidPath" /\ Unchanged)
     /\ (GuardReached /\ LastGuard.verdict = "ok")
          => \A t \in LastTargets : \A a \in AncestorsOf(t) : Names(a) \in last.touched

(***************************************************************************)
(* C18                                                                     *)
(***************************************************************************)
\* The entry of the listed directory a descriptor stands for.
EntryOf(d) == Append(ListedDir, d.name)

\* The first bytes of the entry can be read: opening it reaches a regular file.
Sniffable(f, q) ==
  /\ Stat(f, PathOf(q)).err = ""
  /\ f[Stat(f, PathOf(q)).phys].kind = "file"

\* C18: in every descriptor of a listing, size is present iff the entry is no
\* directory, and mime_type is present only for an entry that is no directory
\* and whose first bytes could be read; an entry that cannot be opened or read
\* has no mime_type, and the listing succeeds all the same.
C18_SizeAndMime ==
  (last.op = "GetFiles" /\ last.err = "OK")
  => \A i \in 1..Len(last.list) :
       /\ last.list[i].size # <<>> <=> last.before[EntryOf(last.list[i])].kind # "dir"
       /\ last.list[i].mime # <<>>
            <=> /\ last.before[EntryOf(last.list[i])].kind # "dir"
                /\ Sniffable(last.before, EntryOf(last.list[i]))

(***************************************************************************)
(* C19                                                                     *)
(***************************************************************************)
\* The path q names an entry of the directory d itself.
DirectChild(q, d) == q # d /\ Dir(q) = d

\* The places where the filesystem is not what it was before the last request.
ChangedPaths ==
  {q \in DOMAIN fs \cup DOMAIN last.before :
     q \notin DOMAIN fs \/ q \notin DOMAIN last.before \/ fs[q] # last.before[q]}

\* The last CreateFile came to test whether its file is there.
FileTested == last.op = "CreateFile" /\ SentUpload /\ last.err \in {"OK", "FileExist"}

\* C19: for every non-empty declared name, the path CreateFile tests and
\* creates is an entry of the target directory itself: not the directory, not
\* its parent, and nothing deeper; what it creates, unless a symbolic link of
\* that name is followed, is an entry of that directory.
C19_DirectChild ==
  FileTested
  => /\ DirectChild(UploadTarget, TargetOf(last.path))
     /\ \A q \in (IF KindAt(last.before, UploadTarget) = "link" THEN {} ELSE ChangedPaths) :
          /\ Len(q) = Len(Stat(last.before, TargetOf(last.path)).phys) + 1
          /\ IsPrefix(Stat(last.before, TargetOf(last.path)).phys, q)

(***************************************************************************)
(* C20                                                                     *)
(***************************************************************************)
\* C20: a CreateFile with no file header, or with an empty declared name,
\* returns InvalidFile whatever its path is (valid, escaping or naming nothing);
\* it touches nothing in the filesystem and does not open the content stream,
\* so that a stream that cannot be opened makes no difference.
C20_InvalidFile ==
  (last.op = "CreateFile" /\ ~SentUpload)
  => /\ last.err = "InvalidFile"
     /\ last.touched = {}
     /\ Unchanged

\* An empty declared name on a stream that cannot be opened, sent to a path
\* that leaves the root.
C20_Witness ==
  /\ last.op = "CreateFile"
  /\ last.file.hdr /\ last.file.name = <<>> /\ last.file.openErr
  /\ HasPrefix(Clean(last.path), DotDot)
  /\ last.err = "InvalidFile"

(***************************************************************************)
(* C21                                                                     *)
(***************************************************************************)
\* C21: the loop over the parent directories ends, wherever it starts: at the
\* root, below it, or at a path the root is no ancestor of.
C21_LoopTerminates == <>(calls.pc = "done")

\* The loop, started at a path outside the root, has climbed to the filesystem
\* root and left there.
C21_Witness ==
  /\ calls.pc = "done"
  /\ ~Inside(Names(calls.start))
  /\ calls.current # calls.start
  /\ calls.current = <<Sep>>
  /\ calls.verdict = "ok"

(***************************************************************************)
(* C22                                                                     *)
(***************************************************************************)
\* The number of levels the entry at physical path q lies below the root.
LevelsUnderRoot(q) == Len(q) - Len(BaseNames)

\* The last DeleteDir names a directory reached through no symbolic link and
\* holding none.
PlainTreeRequested ==
  /\ last.op = "DeleteDir"
  /\ Contained(last.path)
  /\ SymlinkFree(last.before, TargetOf(last.path))
  /\ KindAt(last.before, TargetOf(last.path)) = "dir"
  /\ \A q \in Subtree(last.before, Names(TargetOf(last.path))) : last.before[q].kind # "link"

\* C22: with the maximum depth of 5, a DeleteDir whose subtree holds an entry
\* six levels below the root (/var/data/a/b/c/d/e/f) is rejected for its depth,
\* and one whose deepest entry lies five levels below the root is allowed.
C22_DepthFromRoot ==
  PlainTreeRequested
  => /\ (\E q \in Subtree(last.before, Names(TargetOf(last.path))) :
           LevelsUnderRoot(q) > maxDepth)
          => (last.err = "DepthExceeded" /\ Unchanged)
     /\ (\A q \in Subtree(last.before, Names(TargetOf(last.path))) :
           LevelsUnderRoot(q) <= maxDepth)
          => last.err = "OK"

(***************************************************************************)
(* C23                                                                     *)
(***************************************************************************)
\* C23: in the directory adapter without path checks, CreateDir on a path whose
\* directory is there returns DirExist, and DeleteDir on a path that is not
\* there returns DirNotFound and removes nothing.
C23_NaiveExistence ==
  /\ (last.op = "CreateDir" /\ KindAt(last.before, TargetOf(last.path)) = "dir")
       => (last.err = "DirExist" /\ Unchanged)
  /\ (last.op = "DeleteDir" /\ Missing(last.before, TargetOf(last.path)))
       => (last.err = "DirNotFound" /\ Unchanged)

(***************************************************************************)
(* C24                                                                     *)
(***************************************************************************)
\* The filesystem f with nothing outside the root but the directories the root
\* lies in: it is the same as f inside the root.
WithoutOutside(f) ==
  [q \in {r \in DOMAIN f : Inside(r) \/ IsPrefix(r, BaseNames)} |-> f[q]]

\* The outcome of the last request, had it been served on the filesystem f.
LastRequestOn(f) ==
  IF last.op = "CreateDir" THEN CreateDirResult(f, last.path)
  ELSE IF last.op = "DeleteDir" THEN DeleteDirResult(f, last.path)
  ELSE IF last.op = "RenameDir" THEN RenameDirResult(f, last.path, last.path2)
  ELSE IF last.op = "CreateFile" THEN CreateFileResult(f, last.path, last.file)
  ELSE IF last.op = "GetFiles" THEN GetFilesResult(f, last.path)
  ELSE IF last.op = "DeleteFile" THEN DeleteFileResult(f, last.path)
  ELSE RenameFileResult(f, last.path, last.path2)

\* C24: two filesystems that are the same inside the root and differ outside
\* it give every request the same result: the same error kind and the same
\* listing with its sizes and content types.
C24_OutsideUnobservable ==
  last.op \in Operations
  => \A r \in {LastRequestOn(WithoutOutside(last.before))} :
       /\ r.err = last.err
       /\ r.list = last.list

(***************************************************************************)
(* C25                                                                     *)
(***************************************************************************)
\* The last CreateFile names a directory inside the root that is there and is
\* reached through no symbolic link, and a plain file name.
UploadIntoPlainDir ==
  /\ last.op = "CreateFile" /\ SentUpload
  /\ Base(last.file.name) = last.file.name
  /\ Inside(Names(TargetOf(last.path)))
  /\ ~HasPrefix(Clean(last.path), DotDot)
  /\ SymlinkFree(last.before, TargetOf(last.path))
  /\ KindAt(last.before, TargetOf(last.path)) = "dir"
  /\ DirectChild(UploadTarget, TargetOf(last.path))

\* C25: when the entry of the declared name is a symbolic link (to a file, to
\* a file outside the root, or to nothing), CreateFile returns FileExist and
\* creates and truncates nothing.
C25_LeafLinkNotFollowed ==
  (UploadIntoPlainDir /\ KindAt(last.before, UploadTarget) = "link")
  => (last.err = "FileExist" /\ Unchanged)

(***************************************************************************)
(* C26                                                                     *)
(***************************************************************************)
\* C26: a CreateFile that returns an error leaves no new entry at its target
\* path, so that the same CreateFile, sent again, is not answered FileExist
\* because of the failed attempt.
C26_FailedCreateLeavesNothing ==
  (last.op = "CreateFile" /\ SentUpload /\ last.err # "OK"
     /\ ~Exists(last.before, UploadTarget))
  => /\ ~Exists(fs, UploadTarget)
     /\ CreateFileResult(fs, last.path, last.file).err # "FileExist"

(***************************************************************************)
(* C27                                                                     *)
(***************************************************************************)
\* C27: a rename that runs while another call creates its new path never
\* replaces an entry that is at the new path when os.Rename is called: the
\* rename fails, or the entry found there is there afterwards, as it was.
C27_RenameReplacesNothing ==
  (calls[1].pc = "done" /\ calls[1].hit)
  => /\ ~calls[1].lost
     /\ calls[1].err # "OK"

(***************************************************************************)
(* C28                                                                     *)
(***************************************************************************)
\* A relative path whose clean form is made of names, none of them "..".
LegitimatePath(p) ==
  /\ p # <<>>
  /\ ~IsAbs(p)
  /\ Clean(p) # Dot
  /\ \A i \in 1..Len(Split(Clean(p))) : Split(Clean(p))[i] \notin {<<>>, DotDot}

\* The last request was turned down by the validation of its paths, before any
\* system call.
RejectedUnseen == last.err = "InvalidPath" /\ last.touched = {}

\* C28: a path whose clean form is a sequence of names none of which is ".."
\* (such as "..a") passes the containment checks of every operation: it is not
\* answered InvalidPath for its text.
C28_LegitimateNamesPass ==
  (/\ last.op \in Operations
   /\ last.op = "CreateFile" => SentUpload
   /\ \A p \in LastPaths : LegitimatePath(p))
  => ~RejectedUnseen

(***************************************************************************)
(* C29                                                                     *)
(***************************************************************************)
\* The physical path of the entry the last request names.
TargetEntry == Lstat(last.before, TargetOf(last.path)).phys

\* C29: when no ancestor of the target is a symbolic link, a DeleteDir that
\* succeeds removes the target and the entries below it and nothing else, and a
\* DeleteFile that succeeds removes the target alone; every other entry, the
\* target of a symbolic link in the removed tree or at the target included, is
\* there as it was.
C29_DeleteFrame ==
  (/\ last.op \in {"DeleteDir", "DeleteFile"}
   /\ last.err = "OK"
   /\ \A a \in AncestorsOf(TargetOf(last.path)) : KindAt(last.before, a) # "link")
  => /\ DOMAIN last.before \ DOMAIN fs =
          (IF last.op = "DeleteDir" THEN Subtree(last.before, TargetEntry) ELSE {TargetEntry})
     /\ \A q \in DOMAIN fs : q \in DOMAIN last.before /\ fs[q] = last.before[q]

\* A directory holding a symbolic link was removed, and what the link points to
\* is still there.
C29_Witness ==
  /\ last.op = "DeleteDir" /\ last.err = "OK"
  /\ \A a \in AncestorsOf(TargetOf(last.path)) : KindAt(last.before, a) # "link"
  /\ \E q \in Subtree(last.before, TargetEntry) :
       /\ last.before[q].kind = "link"
       /\ Stat(last.before, PathOf(q)).err = ""
       /\ Stat(last.before, PathOf(q)).phys \in DOMAIN fs
       /\ fs[Stat(last.before, PathOf(q)).phys].kind = "file"

(***************************************************************************)
(* C30                                                                     *)
(***************************************************************************)
NoSymlinks(f) == \A q \in DOMAIN f : f[q].kind # "link"

\* The paths of the last request are relative paths of plain names, each in a
\* directory that is there.
PlainRequest ==
  /\ \A p \in LastPaths :
       /\ LegitimatePath(p)
       /\ Clean(p) = p
       /\ KindAt(last.before, Dir(TargetOf(p))) = "dir"
  /\ last.op = "CreateFile" => (SentUpload /\ Base(last.file.name) = last.file.name)

\* C30: on a filesystem without symbolic links and for plain relative paths
\* in existing directories, the adapter without path checks and the adapter
\* with them return the same error kind and leave the same filesystem.
C30_SameAsHardened ==
  (last.op \in Operations /\ NoSymlinks(last.before) /\ PlainRequest)
  => \A r \in {LastRequestOn(last.before)} :
       /\ r.err = last.err
       /\ r.fs = fs

====
